---- MODULE Spec2Model ----
(***************************************************************************)
(* Verification model of SiteMonitor's check-execution engine:             *)
(*   - BaseChecker._validate_url / _make_request (SSRF guard),             *)
(*   - the Uptime / Authentication / Health checkers,                      *)
(*   - Monitor.perform_checks / _perform_site_checks (the site pipeline).  *)
(* URLs are modelled by what urlparse makes of them: a scheme, a hostname  *)
(* split at its dots into labels, and a path.                              *)
(***************************************************************************)
EXTENDS Integers, Sequences, FiniteSets, TLC

VARIABLES
    \* --- _validate_url applied to one URL (SpecValidate) ---
    v_url,        \* the URL handed to _validate_url
    v_dnsflag,    \* its validate_dns argument
    v_answer,     \* what socket.gethostbyname would answer for the hostname
    v_out,        \* "none" before the call, then "ok" or the SSRFProtectionError raised
    \* --- one _make_request call (SpecRequest) ---
    r_url,        \* the origin URL
    r_dnsflag,    \* validate_dns argument
    r_chain,      \* the Location headers the servers answer with, hop by hop
    r_failAt,     \* which request (1 = origin) ends in an httpx.HTTPError, 0 = none
    r_dns,        \* DNS table: hostname -> gethostbyname answer
    r_pc,         \* position in _make_request
    r_cur,        \* URL of the request in flight / current_url of the history loop
    r_hop,        \* number of redirect responses received / history index
    r_sent,       \* requests sent so far: [url, validated] in order
    r_validated,  \* URLs that have passed validation so far
    r_result,     \* "none" | "response" | "ssrf" | "http_error"
    \* --- one AuthChecker.check call (SpecAuth) ---
    a_site,       \* the checker's site_config
    a_name,       \* the site_name argument ("" for None)
    a_creds,      \* what the credential manager does
    a_net,        \* what the site answers to the login
    a_done,       \* check() has returned
    a_out,        \* what check() returned and left behind
    \* --- Monitor.perform_checks over the configured sites (Spec) ---
    sites,        \* self.sites: the site configurations
    cycle,        \* number of perform_checks calls so far
    pc,           \* position in perform_checks / _perform_site_checks
    site_i,       \* index of the site of the site loop
    check_i,      \* index into check_order of the stage loop
    checkers,     \* check types the site's checkers dict holds
    stages,       \* per check type: how far its check() is in this site's run
    results,      \* the results list of _perform_site_checks
    requests,     \* HTTP requests the site's checkers have sent in this run
    auth_session, \* session_cookies of the site's AuthChecker
    cleaned,      \* check types whose checker has had cleanup() called
    raised,       \* an exception has left _perform_site_checks
    \* --- one CircuitBreaker and its callers (SpecBreaker) ---
    cb,           \* the breaker: thresholds, failure_count, last_failure_time, state
    cb_now,       \* the clock (datetime.now(), in seconds)
    cb_pc,        \* "idle", or "in_func" while call() runs the wrapped function
    cb_calls,     \* number of call() invocations so far
    cb_call,      \* the latest call(): what it found, did and left
    cb_streak,    \* calls that failed since the last success or reset
    cb_failed_at, \* when a call last failed (NoTime: never, or reset since)
    cb_reopened,  \* the latest failure was that of a HALF_OPEN trial call
    \* --- one StateManager and its callers (SpecStore) ---
    sm_state,     \* self.state: the sites' entries and the global counters
    sm_history_size, \* self.history_size
    sm_threshold, \* the configured circuit_breaker.failure_threshold
    sm_clock,     \* the clock; the timestamp of the next result
    sm_log,       \* every result recorded so far, with its site, in order
    sm_file,      \* the state file: what the last save that went through wrote
    sm_before,    \* self.state as it was before the latest record_result
    sm_out,       \* the latest call and what it returned
    \* --- a StateManager saving its state, with crashes (SpecSave) ---
    sv_state,     \* self.state of the running process
    sv_clock,     \* the clock; the timestamp of the next result
    sv_pc,        \* position in save_state, "idle" or "crashed"
    sv_target,    \* the state file
    sv_temp,      \* the temporary file of the save in progress
    sv_prev,      \* the state file as it was when the latest save began
    sv_new,       \* the serialized state the latest save writes
    sv_crashed_at, \* where the process was when it last crashed
    sv_loaded,    \* what the load_state of the latest start returned
    sv_last_save, \* how the latest save_state of this process ended
    sv_mem_log,   \* the results the state in memory was built from
    sv_file_log,  \* the results the state file was written from
    sv_unsaved,   \* the saves that failed since the latest one that went through
    sv_flushed,   \* sv_unsaved as it was when the latest save went through
    \* --- the monitor's StateManager across cycles (SpecGate) ---
    g_state,      \* state_manager.state
    g_threshold,  \* circuit_breaker.failure_threshold of the configuration
    g_outcomes,   \* per cycle so far: the site's check "passed", "failed", "raised"
    g_handed,     \* the latest entry appended to the batch: cycle, previous
    g_recorded,   \* the results record_result was called with, in order
    \* --- a StateManager's failure counters (SpecCounters) ---
    ct_state,     \* self.state
    ct_log,       \* every result recorded so far, in order
    ct_out,       \* the latest get_consecutive_failures call and its value
    \* --- one should_notify call (SpecNotify) ---
    n_notifier,   \* the notifier: kind, enabled, debug_mode
    n_result,     \* the current result
    n_previous,   \* the previous result or NoPrevious
    n_out,        \* "none" before the call, then "true" or "false" as returned
    \* --- the triggers of perform_checks (SpecTriggers) ---
    tr_main,      \* the main thread's position in Monitor.start()
    tr_job,       \* the instances of the interval job that are running
    tr_bot,       \* the bot's /check handler: "idle" or "checking"
    tr_job_runs,  \* interval jobs started so far
    tr_bot_runs,  \* /check commands run so far
    tr_skipped,   \* interval runs skipped so far
    \* --- two threads in record_result (SpecRace) ---
    rc_state,     \* self.state, shared by the threads
    rc_before,    \* self.state before the two calls
    rc_result,    \* per thread: the result it records
    rc_pc,        \* per thread: its position in record_result
    rc_loaded,    \* per thread: the total_checks it read
    \* --- one check() call of one checker (SpecChecks) ---
    ck_call,      \* the checker, its site and the network's answers
    ck_result,    \* the CheckResult returned (NoCheckResult before the call)
    ck_reqs,      \* the requests the call sent
    \* --- the finally clause of _perform_site_checks (SpecCleanup) ---
    cl_checkers,  \* the check types of the checkers dict
    cl_client,    \* per check type: its checker holds an HTTP client
    cl_exit,      \* how the try block ended: "return" or "exception"
    cl_todo,      \* the checkers the loop has not reached yet
    cl_calls,     \* per check type: the cleanup() calls on its checker
    cl_raised,    \* the check types whose cleanup() raised
    cl_pc,        \* "finally", then "returned" or "raised"
    \* shutdown during a cycle
    sh_running,   \* Monitor.running
    sh_thread,    \* the thread perform_checks runs on: "none", "main", "job"
    sh_pc,        \* "idle", "loop", "pipeline", "aborted"
    sh_site,      \* index of the site the loop is at
    sh_stage,     \* stages of the running pipeline that are over
    sh_started,   \* sites whose pipeline was started in this cycle
    sh_done,      \* sites whose pipeline returned in this cycle
    sh_cycles,    \* cycles begun
    sh_signal,    \* _handle_shutdown: "none", "waiting", "exited"
    sh_at_signal, \* what the cycle had done when the signal arrived
    \* a state file of the old format
    mg_file,      \* the old file's content
    mg_state,     \* StateManager.state
    mg_pc,        \* "idle", "file", "loaded", "recorded", "raised"
    mg_result,    \* the result handed to record_result
    \* notification decisions over cycles
    al_notifier,  \* the notifier asked
    al_previous,  \* the previous result handed to it in the latest cycle
    al_result,    \* the latest cycle's result
    al_decision,  \* what should_notify returned: "none", "true", "false"
    al_cycles,    \* cycles so far
    al_streak,    \* failing results in a row, the latest included
    al_alerts,    \* decisions to notify during that streak
    \* a request to a hostname whose DNS answer changes
    rb_url,          \* the URL handed to _make_request
    rb_validate_dns, \* its validate_dns argument
    rb_first,        \* the resolver's first answer for the host
    rb_second,       \* the resolver's second answer for the host
    rb_pc,           \* "idle", "validate", "send", "done"
    rb_connected,    \* the address the client connected to
    rb_result,       \* "none", "ssrf", "http_error", "response"
    \* --- several threads calling one breaker (SpecProbe) ---
    pb_cb,        \* the breaker shared by the threads
    pb_now,       \* datetime.now(), in seconds
    pb_pc,        \* per thread: "idle" or "in_func"
    pb_seen,      \* per thread: the state its last call met under the lock
    pb_during,    \* per thread: its call was let through while a probe was under way
    pb_calls      \* calls made so far

validateVars == <<v_url, v_dnsflag, v_answer, v_out>>
authVars     == <<a_site, a_name, a_creds, a_net, a_done, a_out>>
pipelineVars == <<sites, cycle, pc, site_i, check_i, checkers, stages, results,
                  requests, auth_session, cleaned, raised>>
breakerVars  == <<cb, cb_now, cb_pc, cb_calls, cb_call, cb_streak, cb_failed_at,
                  cb_reopened>>
storeVars    == <<sm_state, sm_history_size, sm_threshold, sm_clock, sm_log, sm_file,
                  sm_before, sm_out>>
saveVars     == <<sv_state, sv_clock, sv_pc, sv_target, sv_temp, sv_prev, sv_new,
                  sv_crashed_at, sv_loaded, sv_last_save, sv_mem_log, sv_file_log,
                  sv_unsaved, sv_flushed>>
gateVars     == <<g_state, g_threshold, g_outcomes, g_handed, g_recorded>>
countersVars == <<ct_state, ct_log, ct_out>>
notifyVars   == <<n_notifier, n_result, n_previous, n_out>>
triggerVars  == <<tr_main, tr_job, tr_bot, tr_job_runs, tr_bot_runs, tr_skipped>>
raceVars     == <<rc_state, rc_before, rc_result, rc_pc, rc_loaded>>
checksVars   == <<ck_call, ck_result, ck_reqs>>
cleanupVars  == <<cl_checkers, cl_client, cl_exit, cl_todo, cl_calls, cl_raised, cl_pc>>
shutdownVars == <<sh_running, sh_thread, sh_pc, sh_site, sh_stage, sh_started, sh_done,
                  sh_cycles, sh_signal, sh_at_signal>>
migrateVars  == <<mg_file, mg_state, mg_pc, mg_result>>
alertsVars   == <<al_notifier, al_previous, al_result, al_decision, al_cycles,
                  al_streak, al_alerts>>
rebindVars   == <<rb_url, rb_validate_dns, rb_first, rb_second, rb_pc,
                  rb_connected, rb_result>>
probeVars    == <<pb_cb, pb_now, pb_pc, pb_seen, pb_during, pb_calls>>
requestVars  == <<r_url, r_dnsflag, r_chain, r_failAt, r_dns, r_pc, r_cur, r_hop,
                  r_sent, r_validated, r_result>>

-----------------------------------------------------------------------------
(* Hostnames.  A hostname is the sequence of its dot-separated labels, each *)
(* a string; an IPv6 literal is one label (it holds no dot).                *)

\* int(): the decimal value of the numeric labels that occur in the model.
DecimalValue ==
    [l \in {"0", "1", "8", "10", "16", "31", "32", "100", "127", "168", "169",
            "172", "192", "224", "240", "254", "255"} |->
        CASE l = "0" -> 0     [] l = "1" -> 1     [] l = "8" -> 8
          [] l = "10" -> 10   [] l = "16" -> 16   [] l = "31" -> 31
          [] l = "32" -> 32   [] l = "100" -> 100 [] l = "127" -> 127
          [] l = "168" -> 168 [] l = "169" -> 169 [] l = "172" -> 172
          [] l = "192" -> 192 [] l = "224" -> 224 [] l = "240" -> 240
          [] l = "254" -> 254 [] l = "255" -> 255]

\* The eight 16-bit groups of the IPv6 literals that occur in the model.
V6Groups ==
    [t \in {"::1", "0:0:0:0:0:0:0:1", "fd00::1", "fe80::1", "ff02::1",
            "::ffff:10.0.0.1", "fd00:ec2::254", "2606:4700::1111"} |->
        CASE t = "::1"              -> <<0, 0, 0, 0, 0, 0, 0, 1>>
          [] t = "0:0:0:0:0:0:0:1"  -> <<0, 0, 0, 0, 0, 0, 0, 1>>
          [] t = "fd00::1"          -> <<64768, 0, 0, 0, 0, 0, 0, 1>>
          [] t = "fe80::1"          -> <<65152, 0, 0, 0, 0, 0, 0, 1>>
          [] t = "ff02::1"          -> <<65282, 0, 0, 0, 0, 0, 0, 1>>
          [] t = "::ffff:10.0.0.1"  -> <<0, 0, 0, 0, 0, 65535, 2560, 1>>
          [] t = "fd00:ec2::254"    -> <<64768, 3778, 0, 0, 0, 0, 0, 596>>
          [] t = "2606:4700::1111"  -> <<9734, 18176, 0, 0, 0, 0, 0, 4369>>]

\* str.lower() on a label.
Lower(l) ==
    CASE l = "LOCALHOST" -> "localhost"
      [] l = "HTTP"      -> "http"
      [] l = "Metadata"  -> "metadata"
      [] OTHER           -> l

LowerHost(h) == [i \in 1..Len(h) |-> Lower(h[i])]

\* hostname.startswith(prefix), prefix ending in a dot: the labels of the
\* prefix are the first labels of the hostname and more follow.
StartsWith(h, p) ==
    /\ Len(h) > Len(p)
    /\ \A i \in 1..Len(p) : h[i] = p[i]

\* ipaddress.ip_address(text): version 4 with its octets, version 6 with its
\* groups, or version 0 for ValueError.
ParseIP(h) ==
    IF /\ Len(h) = 4
       /\ \A i \in 1..4 : h[i] \in DOMAIN DecimalValue /\ DecimalValue[h[i]] <= 255
    THEN [v |-> 4, a |-> [i \in 1..4 |-> DecimalValue[h[i]]]]
    ELSE IF Len(h) = 1 /\ h[1] \in DOMAIN V6Groups
         THEN [v |-> 6, a |-> V6Groups[h[1]]]
         ELSE [v |-> 0, a |-> <<>>]

\* ipaddress.IPv4Address properties.
V4Loopback(a)  == a[1] = 127
V4LinkLocal(a) == a[1] = 169 /\ a[2] = 254
V4Multicast(a) == a[1] >= 224 /\ a[1] <= 239
V4Reserved(a)  == a[1] >= 240
V4Private(a) ==
    \/ a[1] = 0
    \/ a[1] = 10
    \/ a[1] = 127
    \/ a[1] = 169 /\ a[2] = 254
    \/ a[1] = 172 /\ a[2] >= 16 /\ a[2] <= 31
    \/ a[1] = 192 /\ a[2] = 0 /\ a[3] = 0 /\ a[4] <= 7
    \/ a[1] = 192 /\ a[2] = 0 /\ a[3] = 2
    \/ a[1] = 192 /\ a[2] = 168
    \/ a[1] = 198 /\ a[2] >= 18 /\ a[2] <= 19
    \/ a[1] = 198 /\ a[2] = 51 /\ a[3] = 100
    \/ a[1] = 203 /\ a[2] = 0 /\ a[3] = 113
    \/ a[1] >= 240

\* ipaddress.IPv6Address properties.
V6Mapped(g) ==
    IF (\A i \in 1..5 : g[i] = 0) /\ g[6] = 65535
    THEN <<g[7] \div 256, g[7] % 256, g[8] \div 256, g[8] % 256>>
    ELSE <<>>
V6Loopback(g)  == g = <<0, 0, 0, 0, 0, 0, 0, 1>>
V6LinkLocal(g) == g[1] >= 65152 /\ g[1] <= 65215
V6Multicast(g) == g[1] >= 65280
V6Reserved(g) ==
    LET b == g[1] \div 256 IN
    \/ b = 0 \/ b = 1 \/ (b >= 2 /\ b <= 31)
    \/ (b >= 64 /\ b <= 251)
    \/ (b = 254 /\ g[1] < 65152)
V6Private(g) ==
    IF V6Mapped(g) # <<>> THEN V4Private(V6Mapped(g))
    ELSE \/ g = <<0, 0, 0, 0, 0, 0, 0, 1>>
         \/ g = <<0, 0, 0, 0, 0, 0, 0, 0>>
         \/ g[1] = 256 /\ g[2] = 0 /\ g[3] = 0 /\ g[4] = 0
         \/ g[1] = 8193 /\ g[2] < 512
         \/ g[1] = 8193 /\ g[2] = 3512
         \/ g[1] \div 512 = 126
         \/ V6LinkLocal(g)

IsPrivate(ip)   == IF ip.v = 4 THEN V4Private(ip.a) ELSE V6Private(ip.a)
IsLoopback(ip)  == IF ip.v = 4 THEN V4Loopback(ip.a) ELSE V6Loopback(ip.a)
IsLinkLocal(ip) == IF ip.v = 4 THEN V4LinkLocal(ip.a) ELSE V6LinkLocal(ip.a)
IsMulticast(ip) == IF ip.v = 4 THEN V4Multicast(ip.a) ELSE V6Multicast(ip.a)
IsReserved(ip)  == IF ip.v = 4 THEN V4Reserved(ip.a) ELSE V6Reserved(ip.a)

-----------------------------------------------------------------------------
(* BaseChecker._validate_url *)

localhost_patterns ==
    { <<"localhost">>, <<"127", "0", "0", "1">>, <<"::1">>, <<"0", "0", "0", "0">>,
      <<"0000:0000:0000:0000:0000:0000:0000:0001">>, <<"[::1]">>,
      <<"[0:0:0:0:0:0:0:1]">> }

metadata_endpoints ==
    { <<"169", "254", "169", "254">>, <<"metadata", "google", "internal">>,
      <<"metadata">>, <<"instance-data">>, <<"fd00:ec2::254">> }

private_ip_prefixes ==
    { <<"10">>, <<"192", "168">> } \cup
    { <<"172", s>> : s \in {"16", "17", "18", "19", "20", "21", "22", "23", "24",
                            "25", "26", "27", "28", "29", "30", "31"} }

\* _resolve_and_validate_dns: answer is the gethostbyname result (the labels
\* of an IPv4 address), or <<>> for socket.gaierror.
resolve_and_validate_dns(answer) ==
    IF answer = <<>> THEN "DnsFail"
    ELSE LET ip == ParseIP(answer) IN
         IF ip.v = 0 THEN "DnsFail"
         ELSE IF IsPrivate(ip) THEN "DnsPrivate"
         ELSE IF IsLoopback(ip) THEN "DnsLoopback"
         ELSE IF IsLinkLocal(ip) THEN "DnsLinkLocal"
         ELSE IF IsReserved(ip) \/ IsMulticast(ip) THEN "DnsReserved"
         ELSE "ok"

\* ValidateLiteralIP without its multicast test (lines 208-212 dropped).
ValidateLiteralIP_NoMulticast(ip) ==
    IF IsPrivate(ip) THEN "PrivateIP"
    ELSE IF IsLoopback(ip) THEN "Loopback"
    ELSE IF IsLinkLocal(ip) THEN "LinkLocal"
    ELSE IF IsReserved(ip) THEN "Reserved"
    ELSE "ok"

\* Step 5 of _validate_url for a literal IP address.
ValidateLiteralIP(ip) ==
    IF IsPrivate(ip) THEN "PrivateIP"
    ELSE IF IsLoopback(ip) THEN "Loopback"
    ELSE IF IsLinkLocal(ip) THEN "LinkLocal"
    ELSE IF IsMulticast(ip) THEN "Multicast"
    ELSE IF IsReserved(ip) THEN "Reserved"
    ELSE IF ip.v = 6 /\ (ip.a[1] \div 512) = 126 THEN "UniqueLocal"
    ELSE IF /\ ip.v = 6
            /\ V6Mapped(ip.a) # <<>>
            /\ LET m == V6Mapped(ip.a) IN
               V4Private(m) \/ V4Loopback(m) \/ V4LinkLocal(m)
         THEN "MappedPrivate"
    ELSE "ok"

\* Step 6 of _validate_url for a hostname that is no literal IP address.
ValidateHostname(hostname, validate_dns, answer) ==
    IF \E p \in private_ip_prefixes : StartsWith(hostname, p) THEN "PrivatePrefix"
    ELSE IF validate_dns THEN resolve_and_validate_dns(answer)
    ELSE "ok"

\* _validate_url(url, validate_dns): "ok" for True, otherwise the kind of
\* SSRFProtectionError raised.  answer is what DNS says for the hostname.
validate_url(url, validate_dns, answer) ==
    IF Lower(url.scheme) \notin {"http", "https"} THEN "InvalidScheme"
    ELSE IF url.host = <<>> THEN "MissingHost"
    ELSE LET hostname == LowerHost(url.host) IN
         IF hostname \in localhost_patterns \/ StartsWith(hostname, <<"127">>)
         THEN "Localhost"
         ELSE IF hostname \in metadata_endpoints
                 \/ StartsWith(hostname, <<"169", "254">>)
         THEN "Metadata"
         ELSE LET ip == ParseIP(hostname) IN
              IF ip.v # 0 THEN ValidateLiteralIP(ip)
              ELSE ValidateHostname(hostname, validate_dns, answer)

-----------------------------------------------------------------------------
(* Inputs of the URL guard. *)

Url(s, h, p) == [scheme |-> s, host |-> h, path |-> p]

Schemes == {"http", "https", "HTTP", "ftp", "file", ""}

LocalhostHosts ==
    { <<"localhost">>, <<"LOCALHOST">>, <<"127", "0", "0", "1">>,
      <<"127", "1", "1", "1">>, <<"127", "evil", "com">>, <<"0", "0", "0", "0">>,
      <<"::1">>, <<"0:0:0:0:0:0:0:1">> }
MetadataHosts ==
    { <<"169", "254", "169", "254">>, <<"169", "254", "1", "1">>,
      <<"metadata", "google", "internal">>, <<"Metadata">>, <<"instance-data">>,
      <<"fd00:ec2::254">> }
BlockedLiteralHosts ==
    { <<"10", "0", "0", "1">>, <<"172", "16", "0", "1">>,
      <<"172", "31", "255", "255">>, <<"192", "168", "1", "1">>,
      <<"224", "0", "0", "1">>, <<"240", "0", "0", "1">>,
      <<"fd00::1">>, <<"fe80::1">>, <<"ff02::1">>, <<"::ffff:10.0.0.1">> }
PublicLiteralHosts ==
    { <<"8", "8", "8", "8">>, <<"1", "1", "1", "1">>, <<"172", "32", "0", "1">>,
      <<"2606:4700::1111">> }
PublicNames ==
    { <<"example", "com">>, <<"www", "google", "com">> }
PrefixedNames ==
    { <<"10", "example", "com">>, <<"192", "168", "evil", "com">>, <<"10", "1">> }

AllHosts ==
    {<<>>} \cup LocalhostHosts \cup MetadataHosts \cup BlockedLiteralHosts
           \cup PublicLiteralHosts \cup PublicNames \cup PrefixedNames

\* gethostbyname answers: a public address, a private one, loopback, failure.
DnsAnswers ==
    { <<"8", "8", "8", "8">>, <<"192", "168", "1", "1">>,
      <<"127", "0", "0", "1">>, <<>> }

-----------------------------------------------------------------------------
(* SpecValidate: _validate_url applied to every URL of the input set. *)

ValidateIdle ==
    /\ v_url = Url("http", <<"example", "com">>, "/")
    /\ v_dnsflag = FALSE
    /\ v_answer = <<>>
    /\ v_out = "none"

ValidateInit ==
    /\ v_url \in {Url(s, h, "/") : s \in Schemes, h \in AllHosts}
    /\ v_dnsflag \in BOOLEAN
    /\ v_answer \in DnsAnswers
    /\ v_out = "none"

CallValidate ==
    /\ v_out = "none"
    /\ v_out' = validate_url(v_url, v_dnsflag, v_answer)
    /\ UNCHANGED <<v_url, v_dnsflag, v_answer>>

-----------------------------------------------------------------------------
(* BaseChecker._make_request, with the httpx client the checker builds     *)
(* (follow_redirects=True): the client follows the whole redirect chain    *)
(* inside client.get(); _make_request then walks response.history.         *)

MaxHops == 2

\* urljoin(base, location) for a location without a scheme.
UrlJoin(base, loc) ==
    IF loc.host # <<>> THEN Url(base.scheme, loc.host, loc.path)
    ELSE Url(base.scheme, base.host, loc.path)

\* The absolute URL a Location header names, seen from the URL that emitted it.
ResolveLocation(base, loc) ==
    IF loc.scheme # "" THEN loc ELSE UrlJoin(base, loc)

\* socket.gethostbyname under the DNS table dns.
DnsLookup(dns, host) ==
    IF LowerHost(host) \in DOMAIN dns THEN dns[LowerHost(host)] ELSE <<>>

\* _validate_redirect_url(redirect_url, base_url).
validate_redirect_url(redirect_url, base_url, dns) ==
    IF redirect_url = Url("", <<>>, "") THEN "ok"
    ELSE LET abs == ResolveLocation(base_url, redirect_url) IN
         validate_url(abs, TRUE, DnsLookup(dns, abs.host))

OriginUrls ==
    { Url("https", <<"example", "com">>, "/"),
      Url("http", <<"evil", "com">>, "/"),
      Url("http", <<"10", "0", "0", "1">>, "/") }

Locations ==
    { Url("http", <<"192", "168", "1", "1">>, "/"),
      Url("https", <<"example", "com">>, "/new"),
      Url("http", <<"evil", "com">>, "/"),
      Url("ftp", <<"example", "com">>, "/"),
      Url("", <<>>, "/admin"),
      Url("", <<"169", "254", "169", "254">>, "/latest") }

Chains == UNION { [1..n -> Locations] : n \in 0..MaxHops }

DnsTables ==
    { [h \in {<<"example", "com">>, <<"evil", "com">>} |->
          IF h = <<"evil", "com">> THEN a ELSE <<"8", "8", "8", "8">>]
      : a \in {<<"8", "8", "8", "8">>, <<"192", "168", "1", "1">>} }

RequestIdle ==
    /\ r_url = Url("https", <<"example", "com">>, "/")
    /\ r_dnsflag = FALSE
    /\ r_chain = <<>>
    /\ r_failAt = 0
    /\ r_dns \in { [h \in {<<"example", "com">>, <<"evil", "com">>} |-> <<>>] }
    /\ r_pc = "idle"
    /\ r_cur = Url("https", <<"example", "com">>, "/")
    /\ r_hop = 0
    /\ r_sent = <<>>
    /\ r_validated = {}
    /\ r_result = "none"

RequestInit ==
    /\ r_url \in OriginUrls
    /\ r_dnsflag \in BOOLEAN
    /\ r_chain \in Chains
    /\ r_failAt \in 0..(MaxHops + 1)
    /\ r_dns \in DnsTables
    /\ r_pc = "validate"
    /\ r_cur = r_url
    /\ r_hop = 0
    /\ r_sent = <<>>
    /\ r_validated = {}
    /\ r_result = "none"

requestInputs == <<r_url, r_dnsflag, r_chain, r_failAt, r_dns>>

\* lines 376-380: the origin URL fails validation, the error is re-raised.
OriginBlocked ==
    /\ r_pc = "validate"
    /\ validate_url(r_url, r_dnsflag, DnsLookup(r_dns, r_url.host)) # "ok"
    /\ r_result' = "ssrf"
    /\ r_pc' = "done"
    /\ UNCHANGED <<requestInputs, r_cur, r_hop, r_sent, r_validated>>

\* line 377: the origin URL passes validation.
OriginValidated ==
    /\ r_pc = "validate"
    /\ validate_url(r_url, r_dnsflag, DnsLookup(r_dns, r_url.host)) = "ok"
    /\ r_validated' = r_validated \cup {r_url}
    /\ r_pc' = "send"
    /\ UNCHANGED <<requestInputs, r_cur, r_hop, r_sent, r_result>>

\* The request the client puts on the wire for r_cur.
SentEntry == [url |-> r_cur, validated |-> r_cur \in r_validated]

\* line 384, inside client.get(): the request to r_cur ends in an httpx.HTTPError
\* (lines 418-420 re-raise it).
ClientSendError ==
    /\ r_pc = "send"
    /\ r_failAt = r_hop + 1
    /\ r_sent' = Append(r_sent, SentEntry)
    /\ r_result' = "http_error"
    /\ r_pc' = "done"
    /\ UNCHANGED <<requestInputs, r_cur, r_hop, r_validated>>

\* line 384, inside client.get(): the answer is a redirect and the client
\* (follow_redirects=True, lines 113-116) goes on to its Location.
ClientFollowRedirect ==
    /\ r_pc = "send"
    /\ r_failAt # r_hop + 1
    /\ r_hop < Len(r_chain)
    /\ r_sent' = Append(r_sent, SentEntry)
    /\ r_cur' = ResolveLocation(r_cur, r_chain[r_hop + 1])
    /\ r_hop' = r_hop + 1
    /\ UNCHANGED <<requestInputs, r_pc, r_validated, r_result>>

\* line 384: client.get() returns the final response; lines 387-389 start the
\* walk over response.history with current_url = url.
ClientFinalResponse ==
    /\ r_pc = "send"
    /\ r_failAt # r_hop + 1
    /\ r_hop = Len(r_chain)
    /\ r_sent' = Append(r_sent, SentEntry)
    /\ r_cur' = r_url
    /\ r_hop' = 0
    /\ r_pc' = "history"
    /\ UNCHANGED <<requestInputs, r_validated, r_result>>

\* lines 391-406: the next history entry's Location passes validation.
HistoryHopValidated ==
    /\ r_pc = "history"
    /\ r_hop < Len(r_chain)
    /\ validate_redirect_url(r_chain[r_hop + 1], r_cur, r_dns) = "ok"
    /\ r_validated' = r_validated \cup {ResolveLocation(r_cur, r_chain[r_hop + 1])}
    /\ r_cur' = ResolveLocation(r_cur, r_chain[r_hop + 1])
    /\ r_hop' = r_hop + 1
    /\ UNCHANGED <<requestInputs, r_pc, r_sent, r_result>>

\* lines 408-412: the next history entry's Location fails validation.
HistoryHopBlocked ==
    /\ r_pc = "history"
    /\ r_hop < Len(r_chain)
    /\ validate_redirect_url(r_chain[r_hop + 1], r_cur, r_dns) # "ok"
    /\ r_result' = "ssrf"
    /\ r_pc' = "done"
    /\ UNCHANGED <<requestInputs, r_cur, r_hop, r_sent, r_validated>>

\* line 414: return response.
ReturnResponse ==
    /\ r_pc = "history"
    /\ r_hop = Len(r_chain)
    /\ r_result' = "response"
    /\ r_pc' = "done"
    /\ UNCHANGED <<requestInputs, r_cur, r_hop, r_sent, r_validated>>

make_request ==
    \/ OriginBlocked
    \/ OriginValidated
    \/ ClientSendError
    \/ ClientFollowRedirect
    \/ ClientFinalResponse
    \/ HistoryHopValidated
    \/ HistoryHopBlocked
    \/ ReturnResponse

\* The absolute URL of the i-th redirect target of the chain.
RECURSIVE HopUrl(_)
HopUrl(i) == IF i = 0 THEN r_url ELSE ResolveLocation(HopUrl(i - 1), r_chain[i])

-----------------------------------------------------------------------------------------------------------------------------------------------------------------------------------------------------------------------------
(* Text: a string is the sequence of its characters. *)

\* str.lower() on one character.
LowerChar(c) ==
    CASE c = "A" -> "a" [] c = "B" -> "b" [] c = "C" -> "c" [] c = "D" -> "d"
      [] c = "E" -> "e" [] c = "F" -> "f" [] c = "G" -> "g" [] c = "H" -> "h"
      [] c = "I" -> "i" [] c = "J" -> "j" [] c = "K" -> "k" [] c = "L" -> "l"
      [] c = "M" -> "m" [] c = "N" -> "n" [] c = "O" -> "o" [] c = "P" -> "p"
      [] c = "Q" -> "q" [] c = "R" -> "r" [] c = "S" -> "s" [] c = "T" -> "t"
      [] c = "U" -> "u" [] c = "V" -> "v" [] c = "W" -> "w" [] c = "X" -> "x"
      [] c = "Y" -> "y" [] c = "Z" -> "z" [] OTHER -> c

\* str.lower().
LowerText(t) == [i \in 1..Len(t) |-> LowerChar(t[i])]

\* Python's "sub in text".
Contains(text, sub) ==
    \E k \in 0..(Len(text) - Len(sub)) :
        \A i \in 1..Len(sub) : text[k + i] = sub[i]

-----------------------------------------------------------------------------
(* AuthChecker *)

\* auth_checker.py:250.
failure_indicators ==
    { <<"e", "r", "r", "o", "r">>, <<"i", "n", "v", "a", "l", "i", "d">>, <<"i", "n", "c", "o", "r", "r", "e", "c", "t">>, <<"f", "a", "i", "l">> }

\* auth_checker.py:238-240, the default success_indicators.
default_success_indicators ==
    { <<"U", "s", "u", "a", "r", "i", "o">>, <<"s", "e", "s", "s", "i", "o", "n">>, <<"d", "a", "s", "h", "b", "o", "a", "r", "d">> }

\* A result whose success flag is set whatever the status.
CheckResult_AlwaysSuccess(type, status, success, msg) ==
    [check_type |-> type, status |-> status, success |-> TRUE, error |-> msg]

\* A result of check(): CheckResult's check_type, status, success and the kind
\* of error_message.
CheckResult(type, status, success, msg) ==
    [check_type |-> type, status |-> status, success |-> success, error |-> msg]

\* The verdict of _perform_login on the POST response (lines 242-251 and
\* 266-295), with the failure indicators left out of the decision.
LoginVerdict_IgnoreFailures(body, success_indicators) ==
    LET response_text == LowerText(body)
        indicators_found ==
            {ind \in success_indicators : Contains(response_text, LowerText(ind))}
    IN  IF indicators_found # {} THEN "success" ELSE "unclear"

\* The verdict of _perform_login on the POST response (lines 242-251 and
\* 266-295): "success", "failed" (error indicators found) or "unclear".
LoginVerdict(body, success_indicators) ==
    LET response_text == LowerText(body)
        indicators_found ==
            {ind \in success_indicators : Contains(response_text, LowerText(ind))}
        failures_found ==
            {ind \in failure_indicators : Contains(response_text, ind)}
    IN  IF indicators_found # {} /\ failures_found = {} THEN "success"
        ELSE IF failures_found # {} THEN "failed"
        ELSE "unclear"

\* urls: base_url.rstrip("/") + "/" + endpoint.lstrip("/"), for a base URL
\* without a path of its own.
JoinPath(url, endpoint) == [url EXCEPT !.path = endpoint]

\* A request sent straight through self.client (no _validate_url before it).
DirectRequest(stage, url) == [stage |-> stage, url |-> url, validated |-> FALSE]

\* A request sent by _make_request after _validate_url returned True.
GuardedRequest(stage, url) == [stage |-> stage, url |-> url, validated |-> TRUE]

\* AuthChecker.session_cookies: the dict {site name or "default": cookies},
\* as a function that gives {} for a key the dict does not hold (the dict
\* never holds empty cookies: line 254).
SessionKeys == {"SiteA", "SiteB", "default"}

NoSession == [k \in SessionKeys |-> {}]

\* AuthChecker._perform_login.  net is what the site answers:
\*   page: "200" | "500" | "timeout" | "connect_error"  (GET of the login page)
\*   post: "response" | "timeout" | "connect_error"     (POST of the form)
\*   body, cookies: the POST response's text and cookies ({} = none).
\* Yields the login_result (success, error), the session_cookies afterwards
\* and the requests sent.
perform_login(site_config, site_name, session_cookies, net) ==
    LET login_url == JoinPath(site_config.url, site_config.authentication.login_endpoint)
        get  == DirectRequest("authentication", login_url)
        post == DirectRequest("authentication", login_url)
    IN  IF net.page \in {"timeout", "connect_error"}
        THEN [success |-> FALSE, error |-> net.page,
              session_cookies |-> session_cookies, reqs |-> <<get>>]
        ELSE IF net.page # "200"
        THEN [success |-> FALSE, error |-> "login_page_status",
              session_cookies |-> session_cookies, reqs |-> <<get>>]
        ELSE IF net.post # "response"
        THEN [success |-> FALSE, error |-> net.post,
              session_cookies |-> session_cookies, reqs |-> <<get, post>>]
        ELSE LET verdict == LoginVerdict(net.body,
                                         site_config.authentication.success_indicators)
                     key == IF site_name # "" THEN site_name ELSE "default"
                 stored == IF net.cookies # {}
                           THEN [session_cookies EXCEPT ![key] = net.cookies]
                           ELSE session_cookies
             IN  [success |-> verdict = "success",
                  error |-> IF verdict = "success" THEN "none" ELSE verdict,
                  session_cookies |-> stored, reqs |-> <<get, post>>]

\* AuthChecker.check(site_name).  creds is what the credential manager does
\* for the site's credential_key: "ok" (username and password), "missing",
\* or "error" (it raises, caught at line 135).
auth_check(site_config, site_name, session_cookies, creds, net) ==
    IF ~site_config.authentication.enabled
    THEN [result |-> CheckResult("authentication", "success", TRUE, "none"),
          session_cookies |-> session_cookies, reqs |-> <<>>]
    ELSE IF creds = "missing"
    THEN [result |-> CheckResult("authentication", "error", FALSE, "no_credentials"),
          session_cookies |-> session_cookies, reqs |-> <<>>]
    ELSE IF creds = "error"
    THEN [result |-> CheckResult("authentication", "error", FALSE, "unexpected"),
          session_cookies |-> session_cookies, reqs |-> <<>>]
    ELSE LET login_result == perform_login(site_config, site_name, session_cookies, net)
         IN  [result |-> IF login_result.success
                         THEN CheckResult("authentication", "success", TRUE, "none")
                         ELSE CheckResult("authentication", "failure", FALSE,
                                          login_result.error),
              session_cookies |-> login_result.session_cookies,
              reqs |-> login_result.reqs]

-----------------------------------------------------------------------------
(* SpecAuth: one AuthChecker.check() call on every input of the set. *)

MaxFragments == 2

\* The POST response bodies: up to MaxFragments of these pieces in a row.
Fragments ==
    { <<"U", "s", "u", "a", "r", "i", "o">>, <<"D", "A", "S", "H", "B", "O", "A", "R", "D">>, <<"E", "r", "r", "o", "r">>, <<"F", "A", "I", "L">>, <<"i", "n">>, <<"v", "a", "l", "i", "d">>, <<" ", "o", "k">> }

RECURSIVE BodiesOfLength(_)
BodiesOfLength(n) ==
    IF n = 0 THEN {<<>>}
    ELSE {b \o f : b \in BodiesOfLength(n - 1), f \in Fragments}

Bodies == UNION {BodiesOfLength(n) : n \in 0..MaxFragments}

IndicatorConfigs == { default_success_indicators, {<<"W", "e", "l", "c", "o", "m", "e">>}, {} }

AuthConfig(enabled, indicators) ==
    [enabled |-> enabled, login_endpoint |-> "/login", success_indicators |-> indicators]

LoginAnswers(bodies) ==
    [page : {"200", "500", "timeout"}, post : {"response", "timeout"},
     body : bodies, cookies : {{}, {"sid"}}]

NoOutput ==
    [result |-> CheckResult("authentication", "none", FALSE, "none"),
     session_cookies |-> NoSession, reqs |-> <<>>]

AuthIdle ==
    /\ a_site = [url |-> Url("https", <<"example", "com">>, "/"),
                 authentication |-> AuthConfig(TRUE, {})]
    /\ a_name = ""
    /\ a_creds = "ok"
    /\ a_net = [page |-> "200", post |-> "response", body |-> <<>>, cookies |-> {}]
    /\ a_done = FALSE
    /\ a_out = NoOutput

AuthInit ==
    /\ a_site \in { [url |-> Url("https", <<"example", "com">>, "/"),
                     authentication |-> AuthConfig(e, ind)]
                    : e \in BOOLEAN, ind \in IndicatorConfigs }
    /\ a_name \in {"SiteA", ""}
    /\ a_creds \in {"ok", "missing", "error"}
    /\ a_net \in LoginAnswers(Bodies)
    /\ a_done = FALSE
    /\ a_out = NoOutput

\* AuthChecker.check(site_name) on a fresh checker (session_cookies = {}).
CallAuthCheck ==
    /\ ~a_done
    /\ a_out' = auth_check(a_site, a_name, NoSession, a_creds, a_net)
    /\ a_done' = TRUE
    /\ UNCHANGED <<a_site, a_name, a_creds, a_net>>

-----------------------------------------------------------------------------
(* ConfigValidator.validate_url: what Monitor._load_config lets through.   *)

\* "ok", or the kind of ConfigValidationError raised (the monitor then exits).
ConfigValidator_validate_url(url) ==
    IF url.scheme \notin {"http", "https"} THEN "InvalidScheme"
    ELSE IF url.host = <<>> THEN "MissingHost"
    ELSE LET hostname == LowerHost(url.host) IN
         IF \/ hostname \in { <<"localhost">>, <<"127", "0", "0", "1">>, <<"::1">>,
                              <<"0", "0", "0", "0">> }
            \/ StartsWith(hostname, <<"127">>)
         THEN "Localhost"
         ELSE IF hostname \in { <<"169", "254", "169", "254">>,
                                <<"metadata", "google", "internal">>,
                                <<"metadata">>, <<"instance-data">> }
         THEN "Metadata"
         ELSE IF StartsWith(hostname, <<"169", "254">>) THEN "Metadata"
         ELSE LET ip == ParseIP(hostname) IN
              IF ip.v # 0
              THEN IF IsPrivate(ip) \/ IsLoopback(ip) \/ IsLinkLocal(ip)
                   THEN "PrivateIP" ELSE "ok"
              ELSE IF \E p \in private_ip_prefixes : StartsWith(hostname, p)
                   THEN "PrivatePrefix" ELSE "ok"

-----------------------------------------------------------------------------
(* UptimeChecker.check and HealthChecker.check *)

\* socket.gethostbyname for the hostnames the sites use (<<>> = gaierror).
gethostbyname(host) ==
    CASE host = <<"example", "com">> -> <<"8", "8", "8", "8">>
      [] host = <<"evil", "com">>    -> <<"192", "168", "1", "1">>
      [] OTHER                       -> <<>>

\* The endpoint loop of UptimeChecker.check from endpoint i on.  outs[i] is
\* what endpoint i answers: response "200" | "500" | "timeout" |
\* "connect_error" | "http_error" | "unexpected" (any other exception, which
\* leaves the loop for the handler at line 158), and warn (certificate not
\* valid or response slower than the warning threshold).
\* Yields [all_success, warned, unexpected, reqs].
RECURSIVE UptimeEndpoints(_, _, _, _)
UptimeEndpoints(url, endpoints, outs, i) ==
    IF i > Len(endpoints)
    THEN [all_success |-> TRUE, warned |-> FALSE, unexpected |-> FALSE, reqs |-> <<>>]
    ELSE LET req == DirectRequest("uptime", JoinPath(url, endpoints[i])) IN
         IF outs[i].response = "unexpected"
         THEN [all_success |-> FALSE, warned |-> FALSE, unexpected |-> TRUE,
               reqs |-> <<req>>]
         ELSE LET rest == UptimeEndpoints(url, endpoints, outs, i + 1) IN
              [all_success |-> rest.all_success /\ outs[i].response = "200",
               warned      |-> rest.warned \/ (outs[i].response \in {"200", "500"}
                                               /\ outs[i].warn),
               unexpected  |-> rest.unexpected,
               reqs        |-> <<req>> \o rest.reqs]

\* UptimeChecker.check().  Yields [result, reqs].
uptime_check(site_config, outs) ==
    LET run == UptimeEndpoints(site_config.url, site_config.uptime.endpoints, outs, 1) IN
    [result |->
        IF run.unexpected THEN CheckResult("uptime", "error", FALSE, "unexpected")
        ELSE IF ~run.all_success
        THEN CheckResult("uptime", "failure", FALSE, "endpoint_errors")
        ELSE IF run.warned THEN CheckResult("uptime", "warning", TRUE, "none")
        ELSE CheckResult("uptime", "success", TRUE, "none"),
     reqs |-> run.reqs]

\* HealthChecker.check().  session_cookies is the auth checker's dict; net is
\* what _make_request ends in once the origin URL is validated: response
\* "200" | "401" | "500" | "timeout" | "error" | "redirect_blocked" (an
\* SSRFProtectionError out of the redirect validation), and warn (expected
\* content missing or response slow).  Yields [result, reqs].
health_check(site_config, session_cookies, net) ==
    IF site_config.health.enabled # "true"
    THEN [result |-> CheckResult("health", "success", TRUE, "disabled"),
          reqs |-> <<>>]
    ELSE IF session_cookies = NoSession
    THEN [result |-> CheckResult("health", "error", FALSE, "no_session"),
          reqs |-> <<>>]
    ELSE LET health_url == JoinPath(site_config.url,
                                    site_config.health.protected_endpoint)
             verdict == validate_url(health_url, TRUE,
                                     gethostbyname(LowerHost(health_url.host)))
             req == GuardedRequest("health", health_url)
         IN  IF verdict # "ok"
             THEN [result |-> CheckResult("health", "error", FALSE, "ssrf"),
                   reqs |-> <<>>]
             ELSE [result |->
                      CASE net.response = "401" ->
                             CheckResult("health", "failure", FALSE, "session_expired")
                        [] net.response = "500" ->
                             CheckResult("health", "failure", FALSE, "status")
                        [] net.response = "200" ->
                             CheckResult("health", IF net.warn THEN "warning"
                                                   ELSE "success", TRUE, "none")
                        [] net.response = "timeout" ->
                             CheckResult("health", "timeout", FALSE, "timeout")
                        [] net.response = "redirect_blocked" ->
                             CheckResult("health", "error", FALSE, "ssrf")
                        [] OTHER ->
                             CheckResult("health", "error", FALSE, "unexpected"),
                   reqs |-> <<req>>]

-----------------------------------------------------------------------------
(* Monitor.perform_checks / _initialize_checkers_for_site /                *)
(* _perform_site_checks                                                    *)

MaxCycles == 2

CheckTypes == {"uptime", "authentication", "health"}

\* check_order with authentication moved in front of uptime.
check_order_AuthFirst == <<"authentication", "uptime", "health">>

check_order == <<"uptime", "authentication", "health">>

\* An exception out of a stage leaves _perform_site_checks (no except clause).
StageExceptionCaught_Reraised == FALSE

\* The except clause around a stage catches the exception and the loop goes on.
StageExceptionCaught == TRUE

\* _initialize_checkers_for_site: the check types a checker is built for.
initialize_checkers_for_site(site_config) ==
    LET enabled_checks == site_config.checks_enabled IN
    (enabled_checks \cap {"uptime", "authentication"})
    \cup (IF "health" \in enabled_checks /\ "authentication" \in enabled_checks
          THEN {"health"} ELSE {})

\* The test that skips the health stage: an authentication result is among
\* the results and it is not successful.
skip_health(rs) ==
    LET auth == {i \in 1..Len(rs) : rs[i].check_type = "authentication"} IN
    auth # {} /\ ~rs[CHOOSE i \in auth : \A j \in auth : i <= j].success

\* The site URLs a configuration can hold: those ConfigValidator accepts.
CandidateSiteUrls ==
    { Url("https", <<"example", "com">>, "/"), Url("http", <<"evil", "com">>, "/"),
      Url("http", <<"224", "0", "0", "1">>, "/"),
      Url("http", <<"192", "168", "1", "1">>, "/"),
      Url("http", <<"localhost">>, "/"), Url("ftp", <<"example", "com">>, "/") }

SiteUrls == {u \in CandidateSiteUrls : ConfigValidator_validate_url(u) = "ok"}

SiteConfig(name, url, checks, endpoints, auth_enabled, health_enabled) ==
    [name |-> name, url |-> url, checks_enabled |-> checks,
     uptime |-> [endpoints |-> endpoints],
     authentication |-> AuthConfig(auth_enabled, default_success_indicators),
     health |-> [enabled |-> health_enabled,
                 protected_endpoint |-> "/ajax/alertasUsuario.aspx"]]

SiteB ==
    SiteConfig("SiteB", Url("https", <<"example", "com">>, "/"), CheckTypes,
               <<"/", "/status">>, TRUE, "true")

\* The configurations: the first site varies, the second is fixed.
SiteLists ==
    { << SiteConfig("SiteA", u, c, <<"/">>, a, h), SiteB >> :
        u \in SiteUrls, c \in SUBSET CheckTypes, a \in BOOLEAN,
        h \in {"unset", "true", "false"} }

NoStage == [t \in CheckTypes |-> "idle"]

UptimeAnswers ==
    [response : {"200", "500", "timeout", "connect_error", "http_error", "unexpected"},
     warn : BOOLEAN]

HealthAnswers ==
    [response : {"200", "401", "500", "timeout", "error", "redirect_blocked"},
     warn : BOOLEAN]

\* Login response bodies of the pipeline runs.
PipelineBodies ==
    { <<>>, <<"D", "A", "S", "H", "B", "O", "A", "R", "D">>,
      <<"D", "A", "S", "H", "B", "O", "A", "R", "D", " ", "E", "r", "r", "o", "r">> }

PipelineIdle ==
    /\ sites = << SiteB >>
    /\ cycle = 0
    /\ pc = "idle"
    /\ site_i = 1
    /\ check_i = 1
    /\ checkers = {}
    /\ stages = NoStage
    /\ results = <<>>
    /\ requests = <<>>
    /\ auth_session = NoSession
    /\ cleaned = {}
    /\ raised = FALSE

PipelineInit ==
    /\ sites \in SiteLists
    /\ cycle = 0
    /\ pc = "idle"
    /\ site_i = 1
    /\ check_i = 1
    /\ checkers = {}
    /\ stages = NoStage
    /\ results = <<>>
    /\ requests = <<>>
    /\ auth_session = NoSession
    /\ cleaned = {}
    /\ raised = FALSE

cur_site == sites[site_i]

cur_check == check_order[check_i]

\* perform_checks is called (by the scheduler or at start-up), at most
\* max_cycles times.
BeginCycleUpTo(max_cycles) ==
    /\ pc = "idle"
    /\ cycle < max_cycles
    /\ cycle' = cycle + 1
    /\ site_i' = 1
    /\ pc' = "site"
    /\ UNCHANGED <<sites, check_i, checkers, stages, results, requests,
                   auth_session, cleaned, raised>>

BeginCycle == BeginCycleUpTo(MaxCycles)

\* A new AuthChecker taking over the cookies of the one built before it.
new_session_cookies_Kept(earlier) == earlier

\* AuthChecker.__init__: self.session_cookies = {}, whatever the checker
\* built before it (earlier) held.
new_session_cookies(earlier) == NoSession

\* The site loop of perform_checks: fresh checkers for the site, then
\* _perform_site_checks starts with results = [].
InitializeCheckers ==
    /\ pc = "site"
    /\ checkers' = initialize_checkers_for_site(cur_site)
    /\ auth_session' = new_session_cookies(auth_session)
    /\ stages' = NoStage
    /\ results' = <<>>
    /\ requests' = <<>>
    /\ cleaned' = {}
    /\ check_i' = 1
    /\ pc' = "stage_loop"
    /\ UNCHANGED <<sites, cycle, site_i, raised>>

\* for check_type in check_order: check_type not in checkers.
StageNotInCheckers ==
    /\ pc = "stage_loop"
    /\ check_i <= Len(check_order)
    /\ cur_check \notin checkers
    /\ check_i' = check_i + 1
    /\ UNCHANGED <<sites, cycle, pc, site_i, checkers, stages, results, requests,
                   auth_session, cleaned, raised>>

\* The health stage is skipped after an unsuccessful authentication result.
SkipHealth ==
    /\ pc = "stage_loop"
    /\ check_i <= Len(check_order)
    /\ cur_check \in checkers
    /\ cur_check = "health"
    /\ skip_health(results)
    /\ stages' = [stages EXCEPT !["health"] = "skipped"]
    /\ check_i' = check_i + 1
    /\ UNCHANGED <<sites, cycle, pc, site_i, checkers, results, requests,
                   auth_session, cleaned, raised>>

\* checker.check() is called.
BeginCheck ==
    /\ pc = "stage_loop"
    /\ check_i <= Len(check_order)
    /\ cur_check \in checkers
    /\ ~(cur_check = "health" /\ skip_health(results))
    /\ stages' = [stages EXCEPT ![cur_check] = "running"]
    /\ pc' = "check"
    /\ UNCHANGED <<sites, cycle, site_i, check_i, checkers, results, requests,
                   auth_session, cleaned, raised>>

\* After check() returned: results.append(result), then the recording steps
\* (metrics, state manager, console) which end normally (recorded) or raise
\* into the except clause of the stage.
AfterCheck(out, recorded) ==
    /\ results' = Append(results, out.result)
    /\ requests' = requests \o out.reqs
    /\ IF recorded
       THEN /\ stages' = [stages EXCEPT ![cur_check] = "returned"]
            /\ pc' = "stage_loop"
            /\ check_i' = check_i + 1
            /\ UNCHANGED raised
       ELSE /\ stages' = [stages EXCEPT ![cur_check] = "returned_then_raised"]
            /\ IF StageExceptionCaught
               THEN pc' = "stage_loop" /\ check_i' = check_i + 1 /\ UNCHANGED raised
               ELSE pc' = "cleanup" /\ raised' = TRUE /\ UNCHANGED check_i
    /\ UNCHANGED <<sites, cycle, site_i, checkers, cleaned>>

UptimeCheckReturns ==
    /\ pc = "check"
    /\ cur_check = "uptime"
    /\ \E outs \in [1..Len(cur_site.uptime.endpoints) -> UptimeAnswers],
          recorded \in BOOLEAN :
          AfterCheck(uptime_check(cur_site, outs), recorded)
    /\ UNCHANGED auth_session

AuthCheckReturns ==
    /\ pc = "check"
    /\ cur_check = "authentication"
    /\ \E creds \in {"ok", "missing", "error"}, net \in LoginAnswers(PipelineBodies),
          recorded \in BOOLEAN :
          LET out == auth_check(cur_site, cur_site.name, auth_session,
                                creds, net)
          IN  /\ AfterCheck(out, recorded)
              /\ auth_session' = out.session_cookies

HealthCheckReturns ==
    /\ pc = "check"
    /\ cur_check = "health"
    /\ \E net \in HealthAnswers, recorded \in BOOLEAN :
          AfterCheck(health_check(cur_site, auth_session, net), recorded)
    /\ UNCHANGED auth_session

\* checker.check() raises: no result is appended.
CheckRaises ==
    /\ pc = "check"
    /\ stages' = [stages EXCEPT ![cur_check] = "raised"]
    /\ IF StageExceptionCaught
       THEN pc' = "stage_loop" /\ check_i' = check_i + 1 /\ UNCHANGED raised
       ELSE pc' = "cleanup" /\ raised' = TRUE /\ UNCHANGED check_i
    /\ UNCHANGED <<sites, cycle, site_i, checkers, results, requests,
                   auth_session, cleaned>>

\* The stage loop is over: return results.
ReturnResults ==
    /\ pc = "stage_loop"
    /\ check_i > Len(check_order)
    /\ pc' = "cleanup"
    /\ UNCHANGED <<sites, cycle, site_i, check_i, checkers, stages, results,
                   requests, auth_session, cleaned, raised>>

\* The finally clause: cleanup() on every checker; then the next site, the
\* end of perform_checks, or the exception going up.
CleanupCheckers ==
    /\ pc = "cleanup"
    /\ cleaned' = checkers
    /\ IF raised THEN pc' = "aborted" /\ UNCHANGED site_i
       ELSE IF site_i < Len(sites) THEN pc' = "site" /\ site_i' = site_i + 1
       ELSE pc' = "idle" /\ UNCHANGED site_i
    /\ UNCHANGED <<sites, cycle, check_i, checkers, stages, results, requests,
                   auth_session, raised>>

-----------------------------------------------------------------------------
(* CircuitBreaker (utils/circuit_breaker.py).  Time is a clock of whole    *)
(* seconds; last_failure_time = NoTime stands for None.                    *)

MaxTime == 4
MaxCalls == 4

NoTime == 0 - 1

\* CircuitBreaker.__init__
NewBreaker(failure_threshold, recovery_timeout) ==
    [failure_threshold |-> failure_threshold, recovery_timeout |-> recovery_timeout,
     failure_count |-> 0, last_failure_time |-> NoTime, state |-> "closed"]

\* _should_attempt_reset answering True whatever the time.
should_attempt_reset_Always(b, now) == TRUE

\* CircuitBreaker._should_attempt_reset
should_attempt_reset(b, now) ==
    IF b.last_failure_time = NoTime THEN TRUE
    ELSE now - b.last_failure_time >= b.recovery_timeout

\* _on_success that leaves failure_count as it is.
on_success_KeepCount(b) == [b EXCEPT !.state = "closed"]

\* CircuitBreaker._on_success
on_success(b) == [b EXCEPT !.failure_count = 0, !.state = "closed"]

\* _on_failure that opens only above the threshold.
on_failure_AboveThreshold(b, now) ==
    LET count == b.failure_count + 1 IN
    [b EXCEPT !.failure_count = count, !.last_failure_time = now,
              !.state = IF count > b.failure_threshold THEN "open" ELSE b.state]

\* _on_failure that does not record the time of the failure.
on_failure_KeepTime(b, now) ==
    LET count == b.failure_count + 1 IN
    [b EXCEPT !.failure_count = count,
              !.state = IF count >= b.failure_threshold THEN "open" ELSE b.state]

\* CircuitBreaker._on_failure
on_failure(b, now) ==
    LET count == b.failure_count + 1 IN
    [b EXCEPT !.failure_count = count, !.last_failure_time = now,
              !.state = IF count >= b.failure_threshold THEN "open" ELSE b.state]

\* reset that leaves failure_count as it is.
reset_KeepCount(b) == [b EXCEPT !.last_failure_time = NoTime, !.state = "closed"]

\* CircuitBreaker.reset
reset(b) == [b EXCEPT !.failure_count = 0, !.last_failure_time = NoTime,
                      !.state = "closed"]

\* What is known of a call(): the breaker and the clock when it was entered,
\* when a call had last failed by then, whether func was invoked, how the call
\* ended ("none" while func runs), and the breaker and the clock when it ended.
NoCall ==
    [before |-> NewBreaker(1, 1), at |-> 0, last_failed |-> NoTime, invoked |-> FALSE, outcome |-> "none",
     after |-> NewBreaker(1, 1), ended |-> 0]

BreakerIdle ==
    /\ cb = NewBreaker(1, 1)
    /\ cb_now = 0
    /\ cb_pc = "idle"
    /\ cb_calls = 0
    /\ cb_call = NoCall
    /\ cb_streak = 0
    /\ cb_failed_at = NoTime
    /\ cb_reopened = FALSE

BreakerInit ==
    /\ cb \in {NewBreaker(t, r) : t \in 1..3, r \in 1..2}
    /\ cb_now = 0
    /\ cb_pc = "idle"
    /\ cb_calls = 0
    /\ cb_call = [NoCall EXCEPT !.before = cb, !.after = cb]
    /\ cb_streak = 0
    /\ cb_failed_at = NoTime
    /\ cb_reopened = FALSE

\* A second passes.
Tick ==
    /\ cb_now < MaxTime
    /\ cb_now' = cb_now + 1
    /\ UNCHANGED <<cb, cb_pc, cb_calls, cb_call, cb_streak, cb_failed_at, cb_reopened>>

\* call(): the breaker is OPEN and it is too early: CircuitOpenError.
CallRefused ==
    /\ cb_pc = "idle"
    /\ cb_calls < MaxCalls
    /\ cb.state = "open"
    /\ ~should_attempt_reset(cb, cb_now)
    /\ cb_calls' = cb_calls + 1
    /\ cb_call' = [before |-> cb, at |-> cb_now, last_failed |-> cb_failed_at, invoked |-> FALSE,
                   outcome |-> "CircuitOpenError", after |-> cb, ended |-> cb_now]
    /\ UNCHANGED <<cb, cb_now, cb_pc, cb_streak, cb_failed_at, cb_reopened>>

\* call(): the breaker lets the call through (from OPEN by way of HALF_OPEN)
\* and func is invoked.
CallAdmitted ==
    /\ cb_pc = "idle"
    /\ cb_calls < MaxCalls
    /\ cb.state = "open" => should_attempt_reset(cb, cb_now)
    /\ cb' = IF cb.state = "open" THEN [cb EXCEPT !.state = "half_open"] ELSE cb
    /\ cb_calls' = cb_calls + 1
    /\ cb_call' = [before |-> cb, at |-> cb_now, last_failed |-> cb_failed_at, invoked |-> TRUE,
                   outcome |-> "none", after |-> cb, ended |-> cb_now]
    /\ cb_pc' = "in_func"
    /\ UNCHANGED <<cb_now, cb_streak, cb_failed_at, cb_reopened>>

\* func returns: _on_success.
FuncReturns ==
    /\ cb_pc = "in_func"
    /\ cb' = on_success(cb)
    /\ cb_call' = [cb_call EXCEPT !.outcome = "returned", !.after = cb',
                                  !.ended = cb_now]
    /\ cb_streak' = 0
    /\ cb_reopened' = FALSE
    /\ cb_pc' = "idle"
    /\ UNCHANGED <<cb_now, cb_calls, cb_failed_at>>

\* func raises an expected_exception: _on_failure, and the exception goes up.
FuncRaises ==
    /\ cb_pc = "in_func"
    /\ cb' = on_failure(cb, cb_now)
    /\ cb_call' = [cb_call EXCEPT !.outcome = "raised", !.after = cb',
                                  !.ended = cb_now]
    /\ cb_streak' = cb_streak + 1
    /\ cb_failed_at' = cb_now
    /\ cb_reopened' = (cb.state = "half_open")
    /\ cb_pc' = "idle"
    /\ UNCHANGED <<cb_now, cb_calls>>

\* func raises an exception that is not an expected_exception: neither
\* _on_success nor _on_failure runs, and the exception goes up.
FuncRaisesUnexpected ==
    /\ cb_pc = "in_func"
    /\ cb_call' = [cb_call EXCEPT !.outcome = "raised_unexpected", !.after = cb,
                                  !.ended = cb_now]
    /\ cb_pc' = "idle"
    /\ UNCHANGED <<cb, cb_now, cb_calls, cb_streak, cb_failed_at, cb_reopened>>

\* reset() between calls.
ManualReset ==
    /\ cb_pc = "idle"
    /\ cb' = reset(cb)
    /\ cb_streak' = 0
    /\ cb_failed_at' = NoTime
    /\ cb_reopened' = FALSE
    /\ UNCHANGED <<cb_now, cb_pc, cb_calls, cb_call>>

-----------------------------------------------------------------------------
(* StateManager (storage/state_manager.py).  A datetime is [kind, t] with   *)
(* kind "datetime" (in memory), "iso" (its isoformat() string) or "none";   *)
(* the timestamps kept as isoformat strings from the start are integers.    *)

MaxRecords == 3

SiteNames == {"SiteA", "SiteB"}

None == [kind |-> "none", t |-> 0]

DateTime(t) == [kind |-> "datetime", t |-> t]

\* datetime.isoformat()
isoformat(d) == [d EXCEPT !.kind = "iso"]

\* datetime.fromisoformat()
fromisoformat(d) == [d EXCEPT !.kind = "datetime"]

\* is_failure counting the status failure only.
is_failure_FailureOnly(result) == result.status = "failure"

\* CheckResult.is_failure.
is_failure(result) == result.status \in {"failure", "error", "timeout"}

\* CheckResult.to_dict(), timestamp being the result's timestamp.
to_dict(result, timestamp) ==
    [check_type |-> result.check_type, timestamp |-> timestamp,
     status |-> result.status, success |-> result.success,
     error_message |-> result.error]

\* No entry under a check type in last_results.
NoResult ==
    [check_type |-> "none", timestamp |-> NoTime, status |-> "none",
     success |-> FALSE, error_message |-> "none"]

\* The entry _get_site_state creates; known = the site is a key of
\* state["sites"].  A dict without a key is the function at its default
\* (NoResult, <<>>, 0, NoTime).
NewSiteState ==
    [known |-> FALSE,
     last_check_time |-> None,
     last_results |-> [c \in CheckTypes |-> NoResult],
     history |-> [c \in CheckTypes |-> <<>>],
     statistics |-> [total_checks |-> 0, total_failures |-> 0,
                     consecutive_failures |-> [c \in CheckTypes |-> 0],
                     last_failure_time |-> [c \in CheckTypes |-> NoTime],
                     last_recovery_time |-> [c \in CheckTypes |-> NoTime]],
     circuit_breaker |-> [is_open |-> FALSE, failure_count |-> 0,
                          last_failure |-> NoTime]]

\* StateManager.__init__ before load_state.
NewState ==
    [sites |-> [s \in SiteNames |-> NewSiteState],
     global |-> [last_check_time |-> None, total_checks |-> 0]]

\* _get_site_state: the state with the site's entry in it.
get_site_state(state, site_name) ==
    [state EXCEPT !.sites[site_name].known = TRUE]

\* seq[-n:] of Python, n >= 0 (seq[-0:] is the whole list).
SliceLast(seq, n) ==
    IF n = 0 \/ n >= Len(seq) THEN seq
    ELSE SubSeq(seq, Len(seq) - n + 1, Len(seq))

\* The trimming that keeps the first history_size entries.
trim_history_KeepOldest(history, history_size) ==
    IF Len(history) > history_size THEN SubSeq(history, 1, history_size)
    ELSE history

\* record_result: trim history to size limit.
trim_history(history, history_size) ==
    IF Len(history) > history_size THEN SliceLast(history, history_size)
    ELSE history

\* record_result on the site's own entry (lines 190-236).
record_in_site(site_state, result, timestamp, now, history_size) ==
    LET check_type == result.check_type
        stats == site_state.statistics
        failed == is_failure(result)
    IN  [site_state EXCEPT
            !.known = TRUE,
            !.last_check_time = DateTime(now),
            !.last_results[check_type] = to_dict(result, timestamp),
            !.history[check_type] =
                trim_history(Append(@, to_dict(result, timestamp)), history_size),
            !.statistics =
                [stats EXCEPT
                    !.total_checks = @ + 1,
                    !.total_failures = IF failed THEN @ + 1 ELSE @,
                    !.consecutive_failures[check_type] = IF failed THEN @ + 1 ELSE 0,
                    !.last_failure_time[check_type] = IF failed THEN timestamp ELSE @,
                    !.last_recovery_time[check_type] =
                        IF ~failed /\ stats.consecutive_failures[check_type] > 0
                        THEN timestamp ELSE @],
            !.circuit_breaker =
                IF failed
                THEN [@ EXCEPT !.failure_count = @ + 1, !.last_failure = timestamp]
                ELSE [@ EXCEPT !.failure_count = 0]]

\* record_result writing the site's update into every site's entry.
record_result_EverySite(state, result, timestamp, site_name, now, history_size) ==
    [sites |-> [s \in SiteNames |->
                  record_in_site(state.sites[s], result, timestamp, now, history_size)],
     global |-> [last_check_time |-> DateTime(now),
                 total_checks |-> state.global.total_checks + 1]]

\* StateManager.record_result, up to the save (lines 181-236).
record_result(state, result, timestamp, site_name, now, history_size) ==
    [sites |-> [state.sites EXCEPT ![site_name] =
                  record_in_site(@, result, timestamp, now, history_size)],
     global |-> [last_check_time |-> DateTime(now),
                 total_checks |-> state.global.total_checks + 1]]

\* StateManager.get_history: what it returns.
get_history(state, check_type, count, site_name) ==
    LET history == state.sites[site_name].history[check_type] IN
    IF history # <<>> THEN SliceLast(history, count) ELSE <<>>

\* StateManager.get_summary(site_name): the circuit_breaker part of it.
get_summary(state, site_name) ==
    [site_name |-> site_name,
     last_check |-> IF state.sites[site_name].last_check_time.kind = "datetime"
                    THEN isoformat(state.sites[site_name].last_check_time)
                    ELSE None,
     statistics |-> state.sites[site_name].statistics,
     circuit_breaker |-> state.sites[site_name].circuit_breaker]

\* _prepare_for_serialization followed by json.dump: every datetime of the
\* state becomes its isoformat string.
serialize(state) ==
    [sites |-> [s \in SiteNames |->
                  [state.sites[s] EXCEPT !.last_check_time =
                      IF @.kind = "datetime" THEN isoformat(@) ELSE @]],
     global |-> [state.global EXCEPT !.last_check_time =
                      IF @.kind = "datetime" THEN isoformat(@) ELSE @]]

\* load_state on a complete file of the multi-site format: the loaded dict
\* replaces "sites" and "global", and the last_check_time strings are parsed.
load_state(loaded_state) ==
    [sites |-> [s \in SiteNames |->
                  [loaded_state.sites[s] EXCEPT !.last_check_time =
                      IF @.kind = "iso" THEN fromisoformat(@) ELSE @]],
     global |-> [loaded_state.global EXCEPT !.last_check_time =
                      IF @.kind = "iso" THEN fromisoformat(@) ELSE @]]

\* The results handed to record_result.
RecordedResults ==
    { CheckResult(c, st, st \in {"success", "warning"}, "none") :
        c \in {"uptime", "health"}, st \in {"success", "failure"} }

\* The history_size values and the count arguments of get_history.
HistorySizes == {1, MaxRecords - 1}

Counts == {0, 1, MaxRecords}

NoQuery == [op |-> "none", site |-> "SiteA", check_type |-> "uptime", count |-> 0,
            history |-> <<>>, is_open |-> FALSE]

StoreIdle ==
    /\ sm_state = NewState
    /\ sm_history_size = 1
    /\ sm_threshold = 2
    /\ sm_clock = 0
    /\ sm_log = <<>>
    /\ sm_file = serialize(NewState)
    /\ sm_before = NewState
    /\ sm_out = NoQuery

StoreInit ==
    /\ sm_state = NewState
    /\ sm_history_size \in HistorySizes
    /\ sm_threshold = 2
    /\ sm_clock = 0
    /\ sm_log = <<>>
    /\ sm_file = serialize(NewState)
    /\ sm_before = NewState
    /\ sm_out = NoQuery

\* record_result(result, site_name), its save_state included (the save goes
\* through; a save that fails leaves self.state the same and the file as it
\* was, see SpecSave).
RecordResult ==
    /\ sm_clock < MaxRecords
    /\ \E result \in RecordedResults, site_name \in SiteNames :
          LET now == sm_clock + 1
              state == record_result(sm_state, result, now, site_name, now,
                                     sm_history_size)
          IN  /\ sm_state' = state
              /\ sm_before' = sm_state
              /\ sm_clock' = now
              /\ sm_log' = Append(sm_log, [site |-> site_name,
                                           entry |-> to_dict(result, now)])
              /\ sm_file' = serialize(state)
              /\ sm_out' = [NoQuery EXCEPT !.op = "record_result",
                                           !.site = site_name,
                                           !.check_type = result.check_type]
    /\ UNCHANGED <<sm_history_size, sm_threshold>>

\* get_history(check_type, count, site_name)
GetHistory ==
    /\ \E check_type \in {"uptime", "health"}, count \in Counts,
          site_name \in SiteNames :
          /\ sm_state' = get_site_state(sm_state, site_name)
          /\ sm_out' = [NoQuery EXCEPT
                           !.op = "get_history", !.site = site_name,
                           !.check_type = check_type, !.count = count,
                           !.history = get_history(sm_state, check_type, count,
                                                   site_name)]
    /\ UNCHANGED <<sm_history_size, sm_threshold, sm_clock, sm_log, sm_file,
                   sm_before>>

\* get_summary(site_name)
GetSummary ==
    /\ \E site_name \in SiteNames :
          /\ sm_state' = get_site_state(sm_state, site_name)
          /\ sm_out' = [NoQuery EXCEPT
                           !.op = "get_summary", !.site = site_name,
                           !.is_open = get_summary(sm_state, site_name)
                                          .circuit_breaker.is_open]
    /\ UNCHANGED <<sm_history_size, sm_threshold, sm_clock, sm_log, sm_file,
                   sm_before>>

-----------------------------------------------------------------------------
(* StateManager.save_state / load_state with crashes of the process.  A    *)
(* file is [exists, complete, data]: data is the serialized state it was   *)
(* written from, complete = all of the JSON text is in the file.           *)

NoFile == [exists |-> FALSE, complete |-> FALSE, data |-> serialize(NewState)]

PartialFile(data) == [exists |-> TRUE, complete |-> FALSE, data |-> data]

CompleteFile(data) == [exists |-> TRUE, complete |-> TRUE, data |-> data]

\* The save writing straight into the state file.
save_write_path_InPlace == "state_file"

\* Where save_state writes the JSON text: the mkstemp file.
save_write_path == "temp_file"

\* A failed write leaving its temporary file where it is.
unlink_temp_on_failure_Never == FALSE

\* The except clause of the write: os.unlink(temp_path), then re-raise into
\* the outer except clause, which returns False.
unlink_temp_on_failure == TRUE

\* The results recorded in the runs with crashes.
SavedResults ==
    { CheckResult("uptime", st, st = "success", "none") : st \in {"success", "failure"} }

SaveIdle ==
    /\ sv_state = NewState
    /\ sv_clock = 0
    /\ sv_pc = "idle"
    /\ sv_target = NoFile
    /\ sv_temp = NoFile
    /\ sv_prev = NoFile
    /\ sv_new = serialize(NewState)
    /\ sv_crashed_at = "none"
    /\ sv_loaded = "none"
    /\ sv_last_save = "none"
    /\ sv_mem_log = <<>>
    /\ sv_file_log = <<>>
    /\ sv_unsaved = 0
    /\ sv_flushed = 0

\* A process start with no state file.
SaveInit ==
    /\ sv_state = NewState
    /\ sv_clock = 0
    /\ sv_pc = "idle"
    /\ sv_target = NoFile
    /\ sv_temp = NoFile
    /\ sv_prev = NoFile
    /\ sv_new = serialize(NewState)
    /\ sv_crashed_at = "none"
    /\ sv_loaded = "none"
    /\ sv_last_save = "none"
    /\ sv_mem_log = <<>>
    /\ sv_file_log = <<>>
    /\ sv_unsaved = 0
    /\ sv_flushed = 0

\* record_result up to its save_state() call.
SvRecordResult ==
    /\ sv_pc = "idle"
    /\ sv_clock < MaxRecords
    /\ \E result \in SavedResults :
          /\ sv_state' = record_result(sv_state, result, sv_clock + 1, "SiteA",
                                       sv_clock + 1, MaxRecords - 1)
          /\ sv_mem_log' = Append(sv_mem_log, to_dict(result, sv_clock + 1))
    /\ sv_clock' = sv_clock + 1
    /\ sv_pc' = "save"
    /\ sv_loaded' = "none"
    /\ sv_last_save' = "running"
    /\ UNCHANGED <<sv_target, sv_temp, sv_prev, sv_new, sv_crashed_at,
                   sv_file_log, sv_unsaved, sv_flushed>>

\* save_state: mkdir, _prepare_for_serialization, mkstemp.
SaveMkstemp ==
    /\ sv_pc = "save"
    /\ sv_prev' = sv_target
    /\ sv_new' = serialize(sv_state)
    /\ sv_temp' = PartialFile(serialize(sv_state))
    /\ sv_pc' = "temp_created"
    /\ UNCHANGED <<sv_state, sv_clock, sv_target, sv_crashed_at, sv_loaded,
                   sv_last_save, sv_mem_log, sv_file_log, sv_unsaved, sv_flushed>>

\* json.dump has written a part of the text.
SaveWritePart ==
    /\ sv_pc = "temp_created"
    /\ IF save_write_path = "temp_file"
       THEN sv_temp' = PartialFile(sv_new) /\ UNCHANGED sv_target
       ELSE sv_target' = PartialFile(sv_new) /\ UNCHANGED sv_temp
    /\ sv_pc' = "writing"
    /\ UNCHANGED <<sv_state, sv_clock, sv_prev, sv_new, sv_crashed_at, sv_loaded,
                   sv_last_save, sv_mem_log, sv_file_log, sv_unsaved, sv_flushed>>

\* The rest of the text, flush and fsync.
SaveFlushFsync ==
    /\ sv_pc = "writing"
    /\ IF save_write_path = "temp_file"
       THEN sv_temp' = CompleteFile(sv_new) /\ UNCHANGED sv_target
       ELSE sv_target' = CompleteFile(sv_new) /\ UNCHANGED sv_temp
    /\ sv_pc' = "synced"
    /\ UNCHANGED <<sv_state, sv_clock, sv_prev, sv_new, sv_crashed_at, sv_loaded,
                   sv_last_save, sv_mem_log, sv_file_log, sv_unsaved, sv_flushed>>

\* os.replace(temp_path, state_file); save_state returns True.
SaveReplace ==
    /\ sv_pc = "synced"
    /\ IF save_write_path = "temp_file"
       THEN sv_target' = sv_temp
       ELSE UNCHANGED sv_target
    /\ sv_temp' = NoFile
    /\ sv_pc' = "idle"
    /\ sv_last_save' = "ok"
    /\ sv_file_log' = sv_mem_log
    /\ sv_flushed' = sv_unsaved
    /\ sv_unsaved' = 0
    /\ UNCHANGED <<sv_state, sv_clock, sv_prev, sv_new, sv_crashed_at, sv_loaded,
                   sv_mem_log>>

\* mkdir, the serialization or mkstemp raises: save_state returns False and
\* record_result returns.
SaveFailsEarly ==
    /\ sv_pc = "save"
    /\ sv_prev' = sv_target
    /\ sv_pc' = "idle"
    /\ sv_last_save' = "failed"
    /\ sv_unsaved' = sv_unsaved + 1
    /\ UNCHANGED <<sv_state, sv_clock, sv_target, sv_temp, sv_new, sv_crashed_at,
                   sv_loaded, sv_mem_log, sv_file_log, sv_flushed>>

\* The write or the replace raises: the temp file is unlinked, save_state
\* returns False and record_result returns.
SaveFails ==
    /\ sv_pc \in {"temp_created", "writing", "synced"}
    /\ sv_temp' = IF unlink_temp_on_failure THEN NoFile ELSE sv_temp
    /\ sv_pc' = "idle"
    /\ sv_last_save' = "failed"
    /\ sv_unsaved' = sv_unsaved + 1
    /\ UNCHANGED <<sv_state, sv_clock, sv_target, sv_prev, sv_new, sv_crashed_at,
                   sv_loaded, sv_mem_log, sv_file_log, sv_flushed>>

\* The process dies; the files stay as they are.
Crash ==
    /\ sv_pc # "crashed"
    /\ sv_crashed_at' = sv_pc
    /\ sv_pc' = "crashed"
    /\ sv_loaded' = "none"
    /\ sv_last_save' = "none"
    /\ UNCHANGED <<sv_state, sv_clock, sv_target, sv_temp, sv_prev, sv_new,
                   sv_mem_log, sv_file_log, sv_unsaved, sv_flushed>>

\* The next start: StateManager.__init__ and its load_state().  A leftover
\* temp file has another name than any later mkstemp file.
Restart ==
    /\ sv_pc = "crashed"
    /\ IF sv_target.exists /\ sv_target.complete
       THEN sv_state' = load_state(sv_target.data) /\ sv_loaded' = "true"
       ELSE sv_state' = NewState /\ sv_loaded' = "false"
    /\ sv_temp' = NoFile
    /\ sv_pc' = "idle"
    /\ sv_mem_log' = sv_file_log
    /\ sv_unsaved' = 0
    /\ sv_flushed' = 0
    /\ UNCHANGED <<sv_clock, sv_target, sv_prev, sv_new, sv_crashed_at,
                   sv_last_save, sv_file_log>>

-----------------------------------------------------------------------------
(* The monitor's cycles over one site together with its StateManager: what *)
(* stands between one cycle's failures and the next cycle's checks.        *)

MaxGateCycles == 3

\* StateManager() as the monitor builds it: history_size = 100.
DefaultHistorySize == 100

\* circuit_breaker.failure_threshold of the configuration.
GateThresholds == {1, MaxGateCycles - 1}

\* A site with the uptime check only, one endpoint.
GateSite ==
    SiteConfig("SiteA", Url("https", <<"example", "com">>, "/"), {"uptime"},
               <<"/">>, FALSE, "unset")

\* StateManager.get_last_result: what it returns (NoResult for None).
get_last_result(state, check_type, site_name) ==
    state.sites[site_name].last_results[check_type]

\* The previous result looked up after record_result.
previous_lookup_AfterRecord(before, after, check_type, site_name) ==
    get_last_result(after, check_type, site_name)

\* previous_result_dict of the stage: get_last_result is called on the
\* store as it is before record_result (before), not as it is after it.
previous_lookup(before, after, check_type, site_name) ==
    get_last_result(before, check_type, site_name)

\* The CheckResult the stage rebuilds from previous_result_dict: check type,
\* timestamp, status and success, nothing else; None stays None.
PreviousResult(previous_result_dict) ==
    IF previous_result_dict = NoResult THEN NoResult
    ELSE [previous_result_dict EXCEPT !.error_message = "none"]

NoBatchEntry == [cycle |-> 0, previous |-> NoResult]

GateIdle ==
    /\ g_state = NewState
    /\ g_threshold = 1
    /\ g_outcomes = <<>>
    /\ g_handed = NoBatchEntry
    /\ g_recorded = <<>>

GateInit ==
    /\ sites = << GateSite >>
    /\ cycle = 0
    /\ pc = "idle"
    /\ site_i = 1
    /\ check_i = 1
    /\ checkers = {}
    /\ stages = NoStage
    /\ results = <<>>
    /\ requests = <<>>
    /\ auth_session = NoSession
    /\ cleaned = {}
    /\ raised = FALSE
    /\ g_state = NewState
    /\ g_threshold \in GateThresholds
    /\ g_outcomes = <<>>
    /\ g_handed = NoBatchEntry
    /\ g_recorded = <<>>

\* perform_checks is called by the scheduler: nothing is consulted before the
\* site loop starts.
GateBeginCycle ==
    /\ BeginCycleUpTo(MaxGateCycles)
    /\ UNCHANGED gateVars

\* The recording steps after check() returned: get_last_result,
\* record_result(result, site_name) with the cycle as the time, and the
\* entry (result, previous_result, site_name) appended to the batch.  When
\* the steps raised, the exception came before or after record_result, and
\* after it before or after the append.
GateUptimeCheckReturns ==
    /\ UptimeCheckReturns
    /\ LET result == results'[Len(results')]
           recorded_state ==
               record_result(g_state, result, cycle, cur_site.name, cycle,
                             DefaultHistorySize)
           entry ==
               [cycle |-> cycle,
                previous |-> PreviousResult(
                    previous_lookup(g_state, recorded_state, "uptime",
                                    cur_site.name))]
       IN  /\ IF stages'["uptime"] = "returned"
              THEN /\ g_state' = recorded_state
                   /\ g_handed' = entry
              ELSE /\ g_state' \in {g_state, get_site_state(g_state, cur_site.name),
                                    recorded_state}
                   /\ IF g_state' = recorded_state
                      THEN g_handed' \in {g_handed, entry}
                      ELSE g_handed' = g_handed
           /\ g_recorded' = IF g_state' = recorded_state
                            THEN Append(g_recorded, to_dict(result, cycle))
                            ELSE g_recorded
           /\ g_outcomes' = Append(g_outcomes,
                                   IF result.success THEN "passed" ELSE "failed")
    /\ UNCHANGED g_threshold

\* check() raised: nothing is recorded.
GateCheckRaises ==
    /\ CheckRaises
    /\ g_outcomes' = Append(g_outcomes, "raised")
    /\ UNCHANGED <<g_state, g_threshold, g_handed, g_recorded>>

-----------------------------------------------------------------------------
(* StateManager's failure counters over sequences of results of every      *)
(* status, for one site.                                                   *)

MaxCounterRecords == 3

\* The statuses of CheckStatus.
CheckStatuses == {"success", "warning", "failure", "error", "timeout"}

\* The results recorded: both check types, every status; success is what the
\* checkers set with the status.
CounterResults ==
    { CheckResult(c, st, st \in {"success", "warning"}, "none") :
        c \in {"uptime", "health"}, st \in CheckStatuses }

\* StateManager.get_consecutive_failures: what it returns.
get_consecutive_failures(state, check_type, site_name) ==
    state.sites[site_name].statistics.consecutive_failures[check_type]

CountersIdle ==
    /\ ct_state = NewState
    /\ ct_log = <<>>
    /\ ct_out = [check_type |-> "none", value |-> 0]

CountersInit ==
    /\ ct_state = NewState
    /\ ct_log = <<>>
    /\ ct_out = [check_type |-> "none", value |-> 0]

\* record_result(result, "SiteA"); the time of the result is its position.
CtRecordResult ==
    /\ Len(ct_log) < MaxCounterRecords
    /\ \E result \in CounterResults :
          LET now == Len(ct_log) + 1 IN
          /\ ct_state' = record_result(ct_state, result, now, "SiteA", now,
                                       DefaultHistorySize)
          /\ ct_log' = Append(ct_log, [check_type |-> result.check_type,
                                       status |-> result.status,
                                       timestamp |-> now])
    /\ ct_out' = [check_type |-> "none", value |-> 0]

\* get_consecutive_failures(check_type, "SiteA").
CtGetConsecutiveFailures ==
    /\ \E c \in {"uptime", "health"} :
          /\ ct_state' = get_site_state(ct_state, "SiteA")
          /\ ct_out' = [check_type |-> c,
                        value |-> get_consecutive_failures(ct_state', c, "SiteA")]
    /\ UNCHANGED ct_log

-----------------------------------------------------------------------------
(* The notifiers' decision to notify (notifiers/base_notifier.py,          *)
(* notifiers/telegram_notifier.py).                                        *)

\* previous_result = None.
NoPrevious == CheckResult("none", "none", FALSE, "none")

\* CheckResult.is_success
is_success(result) == result.status = "success"

\* CheckResult.is_warning
is_warning(result) == result.status = "warning"

\* should_notify notifying on every first result.
should_notify_FirstAlways(enabled, result, previous_result) ==
    IF ~enabled THEN FALSE
    ELSE IF previous_result = NoPrevious THEN TRUE
    ELSE IF is_success(previous_result) /\ is_failure(result) THEN TRUE
    ELSE IF is_failure(previous_result) /\ is_success(result) THEN TRUE
    ELSE IF ~is_warning(previous_result) /\ is_warning(result) THEN TRUE
    ELSE FALSE

\* BaseNotifier.should_notify
should_notify(enabled, result, previous_result) ==
    IF ~enabled THEN FALSE
    ELSE IF previous_result = NoPrevious THEN is_failure(result)
    ELSE IF is_success(previous_result) /\ is_failure(result) THEN TRUE
    ELSE IF is_failure(previous_result) /\ is_success(result) THEN TRUE
    ELSE IF ~is_warning(previous_result) /\ is_warning(result) THEN TRUE
    ELSE FALSE

\* TelegramNotifier.should_notify
telegram_should_notify(enabled, debug_mode, result, previous_result) ==
    IF debug_mode THEN TRUE
    ELSE should_notify(enabled, result, previous_result)

\* The notifiers: email (the base decision) and Telegram, enabled or not,
\* Telegram in debug or regular mode.
Notifiers ==
    { [kind |-> k, enabled |-> e, debug_mode |-> dm] :
        k \in {"email", "telegram"}, e \in BOOLEAN, dm \in BOOLEAN }
    \ { n \in [kind : {"email"}, enabled : BOOLEAN, debug_mode : {TRUE}] : TRUE }

\* The results of one check type, of every status; success as the checkers
\* set it with the status.
NotifyResults ==
    { CheckResult("uptime", st, st \in {"success", "warning"}, "none") :
        st \in CheckStatuses }

NotifyIdle ==
    /\ n_notifier = [kind |-> "email", enabled |-> FALSE, debug_mode |-> FALSE]
    /\ n_result = NoPrevious
    /\ n_previous = NoPrevious
    /\ n_out = "none"

NotifyInit ==
    /\ n_notifier \in Notifiers
    /\ n_result \in NotifyResults
    /\ n_previous \in NotifyResults \cup {NoPrevious}
    /\ n_out = "none"

\* notifier.should_notify(result, previous_result)
CallShouldNotify ==
    /\ n_out = "none"
    /\ LET notify ==
               IF n_notifier.kind = "telegram"
               THEN telegram_should_notify(n_notifier.enabled, n_notifier.debug_mode,
                                           n_result, n_previous)
               ELSE should_notify(n_notifier.enabled, n_result, n_previous)
       IN  n_out' = IF notify THEN "true" ELSE "false"
    /\ UNCHANGED <<n_notifier, n_result, n_previous>>

-----------------------------------------------------------------------------
(* The triggers of perform_checks: the scheduler's interval job (a thread  *)
(* of the scheduler's pool), the initial check of Monitor.start() (the     *)
(* main thread) and the bot's /check (a thread of the event loop's         *)
(* executor).                                                              *)

MaxJobRuns == 3

MaxBotChecks == 3

\* job_defaults["max_instances"] of the scheduler.
max_instances == 1

TriggersIdle ==
    /\ tr_main = "init"
    /\ tr_job = 0
    /\ tr_bot = "idle"
    /\ tr_job_runs = 0
    /\ tr_bot_runs = 0
    /\ tr_skipped = 0

TriggersInit ==
    /\ tr_main = "init"
    /\ tr_job = 0
    /\ tr_bot = "idle"
    /\ tr_job_runs = 0
    /\ tr_bot_runs = 0
    /\ tr_skipped = 0

\* start(): add_interval_job("monitor_checks", self.perform_checks) and
\* scheduler.start() of the background scheduler.
StartScheduler ==
    /\ tr_main = "init"
    /\ tr_main' = "scheduled"
    /\ UNCHANGED <<tr_job, tr_bot, tr_job_runs, tr_bot_runs, tr_skipped>>

\* start(): self.perform_checks() is called on the main thread.
InitialCheckBegins ==
    /\ tr_main = "scheduled"
    /\ tr_main' = "checking"
    /\ UNCHANGED <<tr_job, tr_bot, tr_job_runs, tr_bot_runs, tr_skipped>>

InitialCheckEnds ==
    /\ tr_main = "checking"
    /\ tr_main' = "checked"
    /\ UNCHANGED <<tr_job, tr_bot, tr_job_runs, tr_bot_runs, tr_skipped>>

\* start(): _start_bot(), then the main thread sleeps in its loop.
StartBot ==
    /\ tr_main = "checked"
    /\ tr_main' = "serving"
    /\ UNCHANGED <<tr_job, tr_bot, tr_job_runs, tr_bot_runs, tr_skipped>>

\* The interval elapses and the scheduler submits the job to its pool.
IntervalJobBegins ==
    /\ tr_main # "init"
    /\ tr_job < max_instances
    /\ tr_job_runs < MaxJobRuns
    /\ tr_job' = tr_job + 1
    /\ tr_job_runs' = tr_job_runs + 1
    /\ UNCHANGED <<tr_main, tr_bot, tr_bot_runs, tr_skipped>>

\* The interval elapses while max_instances instances of the job run: the
\* run is skipped.
IntervalJobSkipped ==
    /\ tr_main # "init"
    /\ tr_job >= max_instances
    /\ tr_skipped < MaxJobRuns
    /\ tr_skipped' = tr_skipped + 1
    /\ UNCHANGED <<tr_main, tr_job, tr_bot, tr_job_runs, tr_bot_runs>>

IntervalJobEnds ==
    /\ tr_job > 0
    /\ tr_job' = tr_job - 1
    /\ UNCHANGED <<tr_main, tr_bot, tr_job_runs, tr_bot_runs, tr_skipped>>

\* cmd_check of an authorized user: run_in_executor(None,
\* self.monitor.perform_checks); the handler awaits it.
BotCheckBegins ==
    /\ tr_main = "serving"
    /\ tr_bot = "idle"
    /\ tr_bot_runs < MaxBotChecks
    /\ tr_bot' = "checking"
    /\ tr_bot_runs' = tr_bot_runs + 1
    /\ UNCHANGED <<tr_main, tr_job, tr_job_runs, tr_skipped>>

BotCheckEnds ==
    /\ tr_bot = "checking"
    /\ tr_bot' = "idle"
    /\ UNCHANGED <<tr_main, tr_job, tr_job_runs, tr_bot_runs, tr_skipped>>

-----------------------------------------------------------------------------
(* record_result called for one site by two threads (two executions of     *)
(* perform_checks in progress).  StateManager holds no lock: the threads   *)
(* interleave between statements, and an augmented assignment is a read    *)
(* followed by a write.                                                    *)

Threads == {1, 2}

\* record_result, lines 184-193: the global entry, _get_site_state,
\* last_check_time and last_results.
record_step_last(state, result, timestamp, site_name, now) ==
    [sites |-> [state.sites EXCEPT ![site_name] =
                  [@ EXCEPT !.known = TRUE,
                            !.last_check_time = DateTime(now),
                            !.last_results[result.check_type] =
                                to_dict(result, timestamp)]],
     global |-> [last_check_time |-> DateTime(now),
                 total_checks |-> state.global.total_checks + 1]]

\* record_result, lines 195-205: the history.
record_step_history(state, result, timestamp, site_name, history_size) ==
    [state EXCEPT !.sites[site_name].history[result.check_type] =
        trim_history(Append(@, to_dict(result, timestamp)), history_size)]

\* record_result, line 209, the write of stats["total_checks"] += 1.
record_step_total(state, site_name, loaded) ==
    [state EXCEPT !.sites[site_name].statistics.total_checks = loaded + 1]

\* record_result, lines 211-236: the failure or the success branch.
record_step_branch(state, result, timestamp, site_name) ==
    LET check_type == result.check_type
        stats == state.sites[site_name].statistics
        failed == is_failure(result)
    IN  [state EXCEPT
            !.sites[site_name].statistics =
                [stats EXCEPT
                    !.total_failures = IF failed THEN @ + 1 ELSE @,
                    !.consecutive_failures[check_type] = IF failed THEN @ + 1 ELSE 0,
                    !.last_failure_time[check_type] = IF failed THEN timestamp ELSE @,
                    !.last_recovery_time[check_type] =
                        IF ~failed /\ stats.consecutive_failures[check_type] > 0
                        THEN timestamp ELSE @],
            !.sites[site_name].circuit_breaker =
                IF failed
                THEN [@ EXCEPT !.failure_count = @ + 1, !.last_failure = timestamp]
                ELSE [@ EXCEPT !.failure_count = 0]]

\* The results the two threads record: the uptime check, every status.
RaceResults == { r \in CounterResults : r.check_type = "uptime" }

\* The state before the two calls: empty, or after one failing result.
RaceStates ==
    { NewState,
      record_result(NewState, CheckResult("uptime", "failure", FALSE, "none"),
                    0, "SiteA", 0, DefaultHistorySize) }

RaceIdle ==
    /\ rc_state = NewState
    /\ rc_before = NewState
    /\ rc_result = [t \in Threads |-> NoPrevious]
    /\ rc_pc = [t \in Threads |-> "done"]
    /\ rc_loaded = [t \in Threads |-> 0]

RaceInit ==
    /\ rc_state \in RaceStates
    /\ rc_before = rc_state
    /\ rc_result \in [Threads -> RaceResults]
    /\ rc_pc = [t \in Threads |-> "called"]
    /\ rc_loaded = [t \in Threads |-> 0]

RaceStep(t, from, to, state) ==
    /\ rc_pc[t] = from
    /\ rc_pc' = [rc_pc EXCEPT ![t] = to]
    /\ rc_state' = state
    /\ UNCHANGED <<rc_before, rc_result>>

\* The result of thread t carries t as its timestamp.
RecordLast ==
    \E t \in Threads :
        /\ RaceStep(t, "called", "history",
                    record_step_last(rc_state, rc_result[t], t, "SiteA", t))
        /\ UNCHANGED rc_loaded

RecordHistory ==
    \E t \in Threads :
        /\ RaceStep(t, "history", "load_total",
                    record_step_history(rc_state, rc_result[t], t, "SiteA",
                                        DefaultHistorySize))
        /\ UNCHANGED rc_loaded

RecordLoadTotal ==
    \E t \in Threads :
        /\ RaceStep(t, "load_total", "store_total", rc_state)
        /\ rc_loaded' = [rc_loaded EXCEPT
                            ![t] = rc_state.sites["SiteA"].statistics.total_checks]

RecordStoreTotal ==
    \E t \in Threads :
        /\ RaceStep(t, "store_total", "branch",
                    record_step_total(rc_state, "SiteA", rc_loaded[t]))
        /\ UNCHANGED rc_loaded

RecordBranch ==
    \E t \in Threads :
        /\ RaceStep(t, "branch", "done",
                    record_step_branch(rc_state, rc_result[t], t, "SiteA"))
        /\ UNCHANGED rc_loaded

-----------------------------------------------------------------------------
(* One check() call of each checker on every input of the set: what the    *)
(* result's status and success are on every path.                          *)

\* The sites checked: every accepted URL, authentication and health enabled
\* or not, two uptime endpoints.
CheckedSites ==
    { SiteConfig("SiteA", u, CheckTypes, <<"/", "/status">>, a, h) :
        u \in SiteUrls, a \in BOOLEAN, h \in {"unset", "true"} }

\* The session the health checker is given: none, or SiteA logged in.
CheckedSessions == { NoSession, [NoSession EXCEPT !["SiteA"] = {"sid"}] }

NoUptimeAnswer == [response |-> "200", warn |-> FALSE]

NoLoginAnswer == [page |-> "200", post |-> "response", body |-> <<>>, cookies |-> {}]

NoHealthAnswer == [response |-> "200", warn |-> FALSE]

\* A check() call: the checker, its site and what the network answers to it.
CheckCalls ==
    { [checker |-> "uptime", site |-> s, session |-> NoSession, creds |-> "ok",
       outs |-> o, login |-> NoLoginAnswer, health |-> NoHealthAnswer] :
        s \in CheckedSites, o \in [1..2 -> UptimeAnswers] }
    \cup
    { [checker |-> "authentication", site |-> s, session |-> NoSession, creds |-> c,
       outs |-> [i \in 1..2 |-> NoUptimeAnswer], login |-> l,
       health |-> NoHealthAnswer] :
        s \in CheckedSites, c \in {"ok", "missing", "error"},
        l \in LoginAnswers(PipelineBodies) }
    \cup
    { [checker |-> "health", site |-> s, session |-> ss, creds |-> "ok",
       outs |-> [i \in 1..2 |-> NoUptimeAnswer], login |-> NoLoginAnswer,
       health |-> h] :
        s \in CheckedSites, ss \in CheckedSessions, h \in HealthAnswers }

NoCheckResult == CheckResult("none", "none", FALSE, "none")

ChecksIdle ==
    /\ ck_call = [checker |-> "none", site |-> SiteB, session |-> NoSession,
                  creds |-> "ok", outs |-> [i \in 1..2 |-> NoUptimeAnswer],
                  login |-> NoLoginAnswer, health |-> NoHealthAnswer]
    /\ ck_result = NoCheckResult
    /\ ck_reqs = <<>>

ChecksInit ==
    /\ ck_call \in CheckCalls
    /\ ck_result = NoCheckResult
    /\ ck_reqs = <<>>

CheckReturns(out) ==
    /\ ck_result = NoCheckResult
    /\ ck_result' = out.result
    /\ ck_reqs' = out.reqs
    /\ UNCHANGED ck_call

CallUptimeCheck ==
    /\ ck_call.checker = "uptime"
    /\ CheckReturns(uptime_check(ck_call.site, ck_call.outs))

CallAuthenticationCheck ==
    /\ ck_call.checker = "authentication"
    /\ CheckReturns(auth_check(ck_call.site, ck_call.site.name, ck_call.session,
                               ck_call.creds, ck_call.login))

CallHealthCheck ==
    /\ ck_call.checker = "health"
    /\ CheckReturns(health_check(ck_call.site, ck_call.session, ck_call.health))

-----------------------------------------------------------------------------
(* The finally clause of _perform_site_checks, one checker at a time, and  *)
(* BaseChecker.cleanup.                                                    *)

\* The order of the checkers dict: the order _initialize_checkers_for_site
\* fills it in.
checkers_order == <<"uptime", "authentication", "health">>

\* An exception out of a checker's cleanup() leaves the loop.
CleanupExceptionCaught_Propagates == FALSE

\* The try/except around checker.cleanup() in the loop.
CleanupExceptionCaught == TRUE

\* The checkers dicts _initialize_checkers_for_site can return.
CheckerSets ==
    { initialize_checkers_for_site([checks_enabled |-> c]) : c \in SUBSET CheckTypes }

\* The checkers of a dict in the order of the dict.
InDictOrder(chk) == SelectSeq(checkers_order, LAMBDA c : c \in chk)

CleanupIdle ==
    /\ cl_checkers = {}
    /\ cl_client = [c \in CheckTypes |-> FALSE]
    /\ cl_exit = "return"
    /\ cl_todo = <<>>
    /\ cl_calls = [c \in CheckTypes |-> 0]
    /\ cl_raised = {}
    /\ cl_pc = "returned"

\* The try block is over, by return or by an exception; a checker holds a
\* client when its stage used self.client.
CleanupInit ==
    /\ cl_checkers \in CheckerSets
    /\ \E used \in SUBSET cl_checkers :
          cl_client = [c \in CheckTypes |-> c \in used]
    /\ cl_exit \in {"return", "exception"}
    /\ cl_todo = InDictOrder(cl_checkers)
    /\ cl_calls = [c \in CheckTypes |-> 0]
    /\ cl_raised = {}
    /\ cl_pc = "finally"

\* checker.cleanup() returns: the client, if any, is closed and dropped.
CleanupReturns ==
    /\ cl_pc = "finally"
    /\ cl_todo # <<>>
    /\ cl_calls' = [cl_calls EXCEPT ![Head(cl_todo)] = @ + 1]
    /\ cl_client' = [cl_client EXCEPT ![Head(cl_todo)] = FALSE]
    /\ cl_todo' = Tail(cl_todo)
    /\ UNCHANGED <<cl_checkers, cl_exit, cl_raised, cl_pc>>

\* checker.cleanup() raises: self._client.close() failed and self._client
\* is still set.
CleanupRaises ==
    /\ cl_pc = "finally"
    /\ cl_todo # <<>>
    /\ cl_client[Head(cl_todo)]
    /\ cl_calls' = [cl_calls EXCEPT ![Head(cl_todo)] = @ + 1]
    /\ cl_raised' = cl_raised \cup {Head(cl_todo)}
    /\ IF CleanupExceptionCaught
       THEN cl_todo' = Tail(cl_todo) /\ UNCHANGED cl_pc
       ELSE cl_pc' = "raised" /\ UNCHANGED cl_todo
    /\ UNCHANGED <<cl_checkers, cl_exit, cl_client>>

\* The loop is over: _perform_site_checks returns results, or the exception
\* of the try block goes on.
FinallyEnds ==
    /\ cl_pc = "finally"
    /\ cl_todo = <<>>
    /\ cl_pc' = IF cl_exit = "return" THEN "returned" ELSE "raised"
    /\ UNCHANGED <<cl_checkers, cl_client, cl_exit, cl_todo, cl_calls, cl_raised>>

-----------------------------------------------------------------------------
(* Shutdown during a cycle: perform_checks runs on the main thread (the    *)
(* initial check of start()) or on the scheduler's thread (the interval    *)
(* job); SIGINT and SIGTERM run _handle_shutdown on the main thread.       *)

MaxShutdownSites == 3
MaxShutdownCycles == 2

\* self.sites, in order.
ShutdownSites == 1..MaxShutdownSites

\* scheduler.shutdown() of stop(): wait defaults to True.
shutdown_wait == TRUE

NoSignal == [seen |-> FALSE, started |-> {}, running |-> 0]

ShutdownIdle ==
    /\ sh_running = FALSE
    /\ sh_thread = "none"
    /\ sh_pc = "idle"
    /\ sh_site = 1
    /\ sh_stage = 0
    /\ sh_started = {}
    /\ sh_done = {}
    /\ sh_cycles = 0
    /\ sh_signal = "none"
    /\ sh_at_signal = NoSignal

\* start() has set self.running = True and started the scheduler.
ShutdownInit ==
    /\ sh_running = TRUE
    /\ sh_thread = "none"
    /\ sh_pc = "idle"
    /\ sh_site = 1
    /\ sh_stage = 0
    /\ sh_started = {}
    /\ sh_done = {}
    /\ sh_cycles = 0
    /\ sh_signal = "none"
    /\ sh_at_signal = NoSignal

\* perform_checks is entered: by start() on the main thread (the first
\* cycle) or by the interval job on the scheduler's thread.
ShCycleBegins ==
    /\ sh_pc = "idle"
    /\ sh_signal = "none"
    /\ sh_cycles < MaxShutdownCycles
    /\ sh_thread' = IF sh_cycles = 0 THEN "main" ELSE "job"
    /\ sh_cycles' = sh_cycles + 1
    /\ sh_pc' = "loop"
    /\ sh_site' = 1
    /\ sh_stage' = 0
    /\ sh_started' = {}
    /\ sh_done' = {}
    /\ UNCHANGED <<sh_running, sh_signal, sh_at_signal>>

\* for site_config in self.sites: the next site's checkers are built and
\* _perform_site_checks is entered.  Nothing is tested before it: neither
\* self.running nor any other flag.
ShSitePipelineBegins ==
    /\ sh_pc = "loop"
    /\ sh_site \in ShutdownSites
    /\ sh_signal # "exited"
    /\ sh_pc' = "pipeline"
    /\ sh_stage' = 0
    /\ sh_started' = sh_started \cup {sh_site}
    /\ UNCHANGED <<sh_running, sh_thread, sh_site, sh_done, sh_cycles,
                   sh_signal, sh_at_signal>>

\* One stage of check_order is over: its check ran and its result is
\* recorded.
ShStageRecorded ==
    /\ sh_pc = "pipeline"
    /\ sh_signal # "exited"
    /\ sh_stage < Len(check_order)
    /\ sh_stage' = sh_stage + 1
    /\ UNCHANGED <<sh_running, sh_thread, sh_pc, sh_site, sh_started, sh_done,
                   sh_cycles, sh_signal, sh_at_signal>>

\* _perform_site_checks returns: the site's stages ran and their results
\* are recorded.
ShSitePipelineEnds ==
    /\ sh_pc = "pipeline"
    /\ sh_stage = Len(check_order)
    /\ sh_signal # "exited"
    /\ sh_pc' = "loop"
    /\ sh_done' = sh_done \cup {sh_site}
    /\ sh_site' = sh_site + 1
    /\ UNCHANGED <<sh_running, sh_thread, sh_stage, sh_started, sh_cycles,
                   sh_signal, sh_at_signal>>

\* The site loop is over: perform_checks returns.
ShCycleEnds ==
    /\ sh_pc = "loop"
    /\ sh_site \notin ShutdownSites
    /\ sh_signal # "exited"
    /\ sh_pc' = "idle"
    /\ sh_thread' = "none"
    /\ UNCHANGED <<sh_running, sh_site, sh_stage, sh_started, sh_done,
                   sh_cycles, sh_signal, sh_at_signal>>

\* _handle_shutdown on the main thread: stop() sets self.running = False and
\* shuts the scheduler down, then sys.exit(0).  A cycle on the scheduler's
\* thread goes on while shutdown(wait=True) waits for it; a cycle on the main
\* thread is the code the handler interrupted, and SystemExit unwinds it.
ShHandleShutdown ==
    /\ sh_signal = "none"
    /\ sh_running
    /\ sh_running' = FALSE
    /\ sh_at_signal' = [seen |-> TRUE, started |-> sh_started,
                        running |-> IF sh_pc = "pipeline" THEN sh_site ELSE 0]
    /\ IF sh_thread = "job" /\ shutdown_wait
       THEN /\ sh_signal' = "waiting"
            /\ UNCHANGED <<sh_pc, sh_thread>>
       ELSE /\ sh_signal' = "exited"
            /\ sh_pc' = IF sh_pc = "idle" THEN "idle" ELSE "aborted"
            /\ UNCHANGED sh_thread
    /\ UNCHANGED <<sh_site, sh_stage, sh_started, sh_done, sh_cycles>>

\* The job has ended: scheduler.shutdown returns, stop() goes on and
\* _handle_shutdown exits the process.
ShShutdownReturns ==
    /\ sh_signal = "waiting"
    /\ sh_pc = "idle"
    /\ sh_signal' = "exited"
    /\ UNCHANGED <<sh_running, sh_thread, sh_pc, sh_site, sh_stage, sh_started,
                   sh_done, sh_cycles, sh_at_signal>>

-----------------------------------------------------------------------------
(* StateManager on a state file of the old single-site format: a file      *)
(* without the key "sites", whose content becomes the site "InfoRuta RCE". *)

MaxOldChecks == 2

\* The site name _migrate_old_state gives the old content.
migrated_site_name == "InfoRuta RCE"

\* The site names of the runs on old files.
MigrateSiteNames == {migrated_site_name, "SiteB"}

\* A dict without any key.
EmptyDict == [k \in {} |-> 0]

\* dict.get(key, default) on the loaded file; keys = the keys it holds.
dict_get(old_state, key, default) ==
    IF key \in old_state.keys THEN old_state[key] ELSE default

\* self.state of __init__ before load_state.
MigrateNewState ==
    [sites |-> [s \in MigrateSiteNames |-> NewSiteState],
     global |-> [last_check_time |-> None, total_checks |-> 0]]

\* old_state.get("statistics", {}): the default of a missing key.
migrate_statistics_default == EmptyDict

\* _migrate_old_state, then the timestamp conversion at the end of
\* load_state.
migrate_old_state(state, old_state) ==
    LET last_check_time == dict_get(old_state, "last_check_time", None)
        site == [known |-> TRUE,
                 last_check_time |->
                     IF last_check_time.kind = "iso"
                     THEN fromisoformat(last_check_time) ELSE last_check_time,
                 last_results |->
                     dict_get(old_state, "last_results", NewSiteState.last_results),
                 history |-> dict_get(old_state, "history", NewSiteState.history),
                 statistics |->
                     dict_get(old_state, "statistics", migrate_statistics_default),
                 circuit_breaker |-> NewSiteState.circuit_breaker]
    IN  [sites |-> [state.sites EXCEPT ![migrated_site_name] = site],
         global |-> [state.global EXCEPT !.total_checks =
                        IF "statistics" \in old_state.keys
                        THEN old_state.statistics.total_checks ELSE @]]

\* record_result up to "stats = site_state['statistics']" (lines 190-214).
record_until_statistics(state, result, timestamp, site_name, now, history_size) ==
    [sites |-> [state.sites EXCEPT ![site_name] =
                  [@ EXCEPT
                      !.known = TRUE,
                      !.last_check_time = DateTime(now),
                      !.last_results[result.check_type] = to_dict(result, timestamp),
                      !.history[result.check_type] =
                          trim_history(Append(@, to_dict(result, timestamp)),
                                       history_size)]],
     global |-> [last_check_time |-> DateTime(now),
                 total_checks |-> state.global.total_checks + 1]]

\* get_all_sites: the keys of state["sites"].
get_all_sites(state) == { s \in DOMAIN state.sites : state.sites[s].known }

\* An old result of the uptime check, recorded at time 1.
OldResult(status) ==
    to_dict(CheckResult("uptime", status, status = "success", "none"), 1)

\* The statistics blocks of old files.
OldStatistics ==
    { [total_checks |-> n, total_failures |-> f,
       consecutive_failures |-> [c \in CheckTypes |-> IF c = "uptime" THEN f ELSE 0],
       last_failure_time |-> [c \in CheckTypes |-> NoTime],
       last_recovery_time |-> [c \in CheckTypes |-> NoTime]] :
        n \in {0, MaxOldChecks}, f \in {0, 1} }

\* An old file with the given keys: a key it does not hold has no value.
OldFile(keys, t, r, h, st) ==
    [keys |-> keys,
     last_check_time |-> IF "last_check_time" \in keys THEN t ELSE None,
     last_results |-> [c \in CheckTypes |->
                         IF c = "uptime" /\ "last_results" \in keys
                         THEN r ELSE NoResult],
     history |-> [c \in CheckTypes |->
                    IF c = "uptime" /\ "history" \in keys /\ h # NoResult
                    THEN <<h>> ELSE <<>>],
     statistics |-> IF "statistics" \in keys THEN st ELSE EmptyDict]

\* The old files: every set of keys, each key with its values.
OldFiles ==
    { OldFile(keys, t, r, h, st) :
        keys \in SUBSET {"last_check_time", "last_results", "history", "statistics"},
        t \in {None, isoformat(DateTime(1))},
        r \in {NoResult, OldResult("success"), OldResult("failure")},
        h \in {NoResult, OldResult("success"), OldResult("failure")},
        st \in OldStatistics }

\* No result handed to record_result yet.
NoRecorded == CheckResult("none", "none", FALSE, "none")

NoOldFile ==
    [keys |-> {}, last_check_time |-> None,
     last_results |-> NewSiteState.last_results,
     history |-> NewSiteState.history, statistics |-> EmptyDict]

MigrateIdle ==
    /\ mg_file = NoOldFile
    /\ mg_state = MigrateNewState
    /\ mg_pc = "idle"
    /\ mg_result = NoRecorded

\* StateManager.__init__ before load_state, the state file being an old one.
MigrateInit ==
    /\ mg_file \in OldFiles
    /\ mg_state = MigrateNewState
    /\ mg_pc = "file"
    /\ mg_result = NoRecorded

\* load_state: the file has no "sites" key.
MgLoadState ==
    /\ mg_pc = "file"
    /\ mg_state' = migrate_old_state(mg_state, mg_file)
    /\ mg_pc' = "loaded"
    /\ UNCHANGED <<mg_file, mg_result>>

\* record_result(result, "InfoRuta RCE") at time 2, once: it returns, or
\* stats["total_checks"] raises KeyError after the first updates.
MgRecordResult ==
    /\ mg_pc = "loaded"
    /\ \E result \in RecordedResults :
         /\ mg_result' = result
         /\ IF "total_checks" \in DOMAIN mg_state.sites[migrated_site_name].statistics
            THEN /\ mg_state' = record_result(mg_state, result, 2, migrated_site_name,
                                              2, DefaultHistorySize)
                 /\ mg_pc' = "recorded"
            ELSE /\ mg_state' = record_until_statistics(mg_state, result, 2,
                                     migrated_site_name, 2, DefaultHistorySize)
                 /\ mg_pc' = "raised"
    /\ UNCHANGED mg_file

-----------------------------------------------------------------------------
(* The notification decisions over the cycles of one site and check type:  *)
(* each cycle's result is compared with the result of the cycle before.    *)

MaxAlertCycles == 4

\* The enabled notifiers in regular mode.
RegularNotifiers == { n \in Notifiers : n.enabled /\ ~n.debug_mode }

AlertsIdle ==
    /\ al_notifier = [kind |-> "email", enabled |-> FALSE, debug_mode |-> FALSE]
    /\ al_previous = NoPrevious
    /\ al_result = NoPrevious
    /\ al_decision = "none"
    /\ al_cycles = 0
    /\ al_streak = 0
    /\ al_alerts = 0

AlertsInit ==
    /\ al_notifier \in RegularNotifiers
    /\ al_previous = NoPrevious
    /\ al_result = NoPrevious
    /\ al_decision = "none"
    /\ al_cycles = 0
    /\ al_streak = 0
    /\ al_alerts = 0

\* One cycle's stage and the batch after it: the result is paired with the
\* last result of the store, recorded, and _send_batch_notifications asks
\* the notifier.  al_streak counts the failing results in a row, al_alerts
\* the decisions to notify among them.
AlertCycle ==
    /\ al_cycles < MaxAlertCycles
    /\ \E result \in NotifyResults :
         LET previous_result == al_result
             notify ==
                 IF al_notifier.kind = "telegram"
                 THEN telegram_should_notify(al_notifier.enabled,
                          al_notifier.debug_mode, result, previous_result)
                 ELSE should_notify(al_notifier.enabled, result, previous_result)
             failing == result.status \in {"failure", "error", "timeout"}
         IN  /\ al_previous' = previous_result
             /\ al_result' = result
             /\ al_decision' = IF notify THEN "true" ELSE "false"
             /\ al_streak' = IF failing THEN al_streak + 1 ELSE 0
             /\ al_alerts' = IF failing
                             THEN al_alerts + (IF notify THEN 1 ELSE 0)
                             ELSE 0
    /\ al_cycles' = al_cycles + 1
    /\ UNCHANGED al_notifier

-----------------------------------------------------------------------------
(* _make_request to a hostname whose DNS answer changes: the name is       *)
(* resolved once by _resolve_and_validate_dns and once more by the client  *)
(* when it opens the connection.                                           *)

\* The answers of the resolver (<<>> = the name does not resolve).
RebindAnswers ==
    { <<"8", "8", "8", "8">>, <<"192", "168", "1", "1">>, <<"127", "0", "0", "1">>,
      <<"169", "254", "169", "254">>, <<"224", "0", "0", "1">>,
      <<"240", "0", "0", "1">>, <<>> }

RebindUrls ==
    { Url("http", <<"attacker", "com">>, "/"),
      Url("https", <<"example", "com">>, "/status") }

NotConnected == <<"none">>

RebindIdle ==
    /\ rb_url = Url("https", <<"example", "com">>, "/status")
    /\ rb_validate_dns = FALSE
    /\ rb_first = <<>>
    /\ rb_second = <<>>
    /\ rb_pc = "idle"
    /\ rb_connected = NotConnected
    /\ rb_result = "none"

\* _make_request(method, url, validate_dns) is called; rb_first and
\* rb_second are what the resolver answers the first and the second time
\* it is asked for the host.
RebindInit ==
    /\ rb_url \in RebindUrls
    /\ rb_validate_dns \in BOOLEAN
    /\ rb_first \in RebindAnswers
    /\ rb_second \in RebindAnswers
    /\ rb_pc = "validate"
    /\ rb_connected = NotConnected
    /\ rb_result = "none"

\* lines 376-380: _validate_url, with socket.gethostbyname answering
\* rb_first; SSRFProtectionError is re-raised.
RbValidateUrl ==
    /\ rb_pc = "validate"
    /\ IF validate_url(rb_url, rb_validate_dns, rb_first) = "ok"
       THEN rb_pc' = "send" /\ UNCHANGED rb_result
       ELSE rb_pc' = "done" /\ rb_result' = "ssrf"
    /\ UNCHANGED <<rb_url, rb_validate_dns, rb_first, rb_second, rb_connected>>

\* line 384: client.get(url) is handed the URL with the hostname, not the
\* validated address; the client resolves the name itself (the first lookup
\* when validate_dns is off, the second one otherwise) and connects to
\* the answer.
RbClientConnects ==
    /\ rb_pc = "send"
    /\ LET answer == IF rb_validate_dns THEN rb_second ELSE rb_first IN
       IF answer = <<>>
       THEN rb_result' = "http_error" /\ UNCHANGED rb_connected
       ELSE rb_result' = "response" /\ rb_connected' = answer
    /\ rb_pc' = "done"
    /\ UNCHANGED <<rb_url, rb_validate_dns, rb_first, rb_second>>

-----------------------------------------------------------------------------
(* Several threads in CircuitBreaker.call on one breaker                    *)
(* (utils/circuit_breaker.py).  An action is one critical section of        *)
(* self._lock; func itself runs outside the lock.                           *)

MaxProbeThreads == 2
MaxProbeTime == 2
MaxProbeCalls == 4

ProbeThreads == 1..MaxProbeThreads

\* A HALF_OPEN probe is under way: the thread that moved the breaker from
\* OPEN to HALF_OPEN is still inside func and the breaker is still HALF_OPEN.
ProbeUnderWay ==
    /\ pb_cb.state = "half_open"
    /\ \E t \in ProbeThreads : pb_pc[t] = "in_func" /\ pb_seen[t] = "open"

ProbeIdle ==
    /\ pb_cb = NewBreaker(1, 1)
    /\ pb_now = 0
    /\ pb_pc = [t \in ProbeThreads |-> "idle"]
    /\ pb_seen = [t \in ProbeThreads |-> "none"]
    /\ pb_during = [t \in ProbeThreads |-> FALSE]
    /\ pb_calls = 0

ProbeInit ==
    /\ pb_cb \in {NewBreaker(t, r) : t \in 1..2, r \in 1..2}
    /\ pb_now = 0
    /\ pb_pc = [t \in ProbeThreads |-> "idle"]
    /\ pb_seen = [t \in ProbeThreads |-> "none"]
    /\ pb_during = [t \in ProbeThreads |-> FALSE]
    /\ pb_calls = 0

\* datetime.now() advances.
PbTick ==
    /\ pb_now < MaxProbeTime
    /\ pb_now' = pb_now + 1
    /\ UNCHANGED <<pb_cb, pb_pc, pb_seen, pb_during, pb_calls>>

\* call(), lines 70-78: OPEN and the timeout has not elapsed: CircuitOpenError.
PbCallRefused ==
    \E t \in ProbeThreads :
        /\ pb_pc[t] = "idle"
        /\ pb_calls < MaxProbeCalls
        /\ pb_cb.state = "open"
        /\ ~should_attempt_reset(pb_cb, pb_now)
        /\ pb_calls' = pb_calls + 1
        /\ pb_seen' = [pb_seen EXCEPT ![t] = "refused"]
        /\ UNCHANGED <<pb_cb, pb_now, pb_pc, pb_during>>

\* call(), lines 70-80: the locked block lets the thread through (the state is
\* not OPEN, or it is OPEN and the timeout has elapsed: HALF_OPEN); the lock
\* is released and the thread enters func.
PbCallAdmitted ==
    \E t \in ProbeThreads :
        /\ pb_pc[t] = "idle"
        /\ pb_calls < MaxProbeCalls
        /\ pb_cb.state = "open" => should_attempt_reset(pb_cb, pb_now)
        /\ pb_cb' = IF pb_cb.state = "open" THEN [pb_cb EXCEPT !.state = "half_open"]
                    ELSE pb_cb
        /\ pb_calls' = pb_calls + 1
        /\ pb_pc' = [pb_pc EXCEPT ![t] = "in_func"]
        /\ pb_seen' = [pb_seen EXCEPT ![t] = pb_cb.state]
        /\ pb_during' = [pb_during EXCEPT ![t] = ProbeUnderWay]
        /\ UNCHANGED pb_now

\* func returns; _on_success under the lock.
PbFuncReturns ==
    \E t \in ProbeThreads :
        /\ pb_pc[t] = "in_func"
        /\ pb_cb' = on_success(pb_cb)
        /\ pb_pc' = [pb_pc EXCEPT ![t] = "idle"]
        /\ UNCHANGED <<pb_now, pb_seen, pb_during, pb_calls>>

\* func raises an expected_exception; _on_failure under the lock.
PbFuncRaises ==
    \E t \in ProbeThreads :
        /\ pb_pc[t] = "in_func"
        /\ pb_cb' = on_failure(pb_cb, pb_now)
        /\ pb_pc' = [pb_pc EXCEPT ![t] = "idle"]
        /\ UNCHANGED <<pb_now, pb_seen, pb_during, pb_calls>>

-----------------------------------------------------------------------------
(* Specifications. *)

vars == <<validateVars, requestVars, authVars, pipelineVars, breakerVars, storeVars, saveVars, gateVars, countersVars, notifyVars, triggerVars, raceVars, checksVars, cleanupVars, shutdownVars, migrateVars, alertsVars, rebindVars, probeVars>>

NextValidate ==
    \/ CallValidate /\ UNCHANGED <<requestVars, authVars, pipelineVars, breakerVars, storeVars, saveVars, gateVars, countersVars, notifyVars, triggerVars, raceVars, checksVars, cleanupVars, shutdownVars, migrateVars, alertsVars, rebindVars, probeVars>>

InitValidate == ValidateInit /\ RequestIdle /\ AuthIdle /\ PipelineIdle
        /\ BreakerIdle /\ StoreIdle /\ SaveIdle /\ GateIdle /\ CountersIdle
        /\ NotifyIdle /\ TriggersIdle /\ RaceIdle /\ ChecksIdle /\ CleanupIdle
        /\ ShutdownIdle /\ MigrateIdle /\ AlertsIdle /\ RebindIdle
        /\ ProbeIdle

SpecValidate == InitValidate /\ [][NextValidate]_vars

NextRequest ==
    \/ OriginBlocked /\ UNCHANGED <<validateVars, authVars, pipelineVars, breakerVars, storeVars, saveVars, gateVars, countersVars, notifyVars, triggerVars, raceVars, checksVars, cleanupVars, shutdownVars, migrateVars, alertsVars, rebindVars, probeVars>>
    \/ OriginValidated /\ UNCHANGED <<validateVars, authVars, pipelineVars, breakerVars, storeVars, saveVars, gateVars, countersVars, notifyVars, triggerVars, raceVars, checksVars, cleanupVars, shutdownVars, migrateVars, alertsVars, rebindVars, probeVars>>
    \/ ClientSendError /\ UNCHANGED <<validateVars, authVars, pipelineVars, breakerVars, storeVars, saveVars, gateVars, countersVars, notifyVars, triggerVars, raceVars, checksVars, cleanupVars, shutdownVars, migrateVars, alertsVars, rebindVars, probeVars>>
    \/ ClientFollowRedirect /\ UNCHANGED <<validateVars, authVars, pipelineVars, breakerVars, storeVars, saveVars, gateVars, countersVars, notifyVars, triggerVars, raceVars, checksVars, cleanupVars, shutdownVars, migrateVars, alertsVars, rebindVars, probeVars>>
    \/ ClientFinalResponse /\ UNCHANGED <<validateVars, authVars, pipelineVars, breakerVars, storeVars, saveVars, gateVars, countersVars, notifyVars, triggerVars, raceVars, checksVars, cleanupVars, shutdownVars, migrateVars, alertsVars, rebindVars, probeVars>>
    \/ HistoryHopValidated /\ UNCHANGED <<validateVars, authVars, pipelineVars, breakerVars, storeVars, saveVars, gateVars, countersVars, notifyVars, triggerVars, raceVars, checksVars, cleanupVars, shutdownVars, migrateVars, alertsVars, rebindVars, probeVars>>
    \/ HistoryHopBlocked /\ UNCHANGED <<validateVars, authVars, pipelineVars, breakerVars, storeVars, saveVars, gateVars, countersVars, notifyVars, triggerVars, raceVars, checksVars, cleanupVars, shutdownVars, migrateVars, alertsVars, rebindVars, probeVars>>
    \/ ReturnResponse /\ UNCHANGED <<validateVars, authVars, pipelineVars, breakerVars, storeVars, saveVars, gateVars, countersVars, notifyVars, triggerVars, raceVars, checksVars, cleanupVars, shutdownVars, migrateVars, alertsVars, rebindVars, probeVars>>

InitRequest == RequestInit /\ ValidateIdle /\ AuthIdle /\ PipelineIdle
        /\ BreakerIdle /\ StoreIdle /\ SaveIdle /\ GateIdle /\ CountersIdle
        /\ NotifyIdle /\ TriggersIdle /\ RaceIdle /\ ChecksIdle /\ CleanupIdle
        /\ ShutdownIdle /\ MigrateIdle /\ AlertsIdle /\ RebindIdle
        /\ ProbeIdle

SpecRequest == InitRequest /\ [][NextRequest]_vars

NextAuth ==
    \/ CallAuthCheck /\ UNCHANGED <<validateVars, requestVars, pipelineVars, breakerVars, storeVars, saveVars, gateVars, countersVars, notifyVars, triggerVars, raceVars, checksVars, cleanupVars, shutdownVars, migrateVars, alertsVars, rebindVars, probeVars>>

InitAuth == AuthInit /\ ValidateIdle /\ RequestIdle /\ PipelineIdle
        /\ BreakerIdle /\ StoreIdle /\ SaveIdle /\ GateIdle /\ CountersIdle
        /\ NotifyIdle /\ TriggersIdle /\ RaceIdle /\ ChecksIdle /\ CleanupIdle
        /\ ShutdownIdle /\ MigrateIdle /\ AlertsIdle /\ RebindIdle
        /\ ProbeIdle

SpecAuth == InitAuth /\ [][NextAuth]_vars

Next ==
    \/ BeginCycle /\ UNCHANGED <<validateVars, requestVars, authVars, breakerVars, storeVars, saveVars, gateVars, countersVars, notifyVars, triggerVars, raceVars, checksVars, cleanupVars, shutdownVars, migrateVars, alertsVars, rebindVars, probeVars>>
    \/ InitializeCheckers /\ UNCHANGED <<validateVars, requestVars, authVars, breakerVars, storeVars, saveVars, gateVars, countersVars, notifyVars, triggerVars, raceVars, checksVars, cleanupVars, shutdownVars, migrateVars, alertsVars, rebindVars, probeVars>>
    \/ StageNotInCheckers /\ UNCHANGED <<validateVars, requestVars, authVars, breakerVars, storeVars, saveVars, gateVars, countersVars, notifyVars, triggerVars, raceVars, checksVars, cleanupVars, shutdownVars, migrateVars, alertsVars, rebindVars, probeVars>>
    \/ SkipHealth /\ UNCHANGED <<validateVars, requestVars, authVars, breakerVars, storeVars, saveVars, gateVars, countersVars, notifyVars, triggerVars, raceVars, checksVars, cleanupVars, shutdownVars, migrateVars, alertsVars, rebindVars, probeVars>>
    \/ BeginCheck /\ UNCHANGED <<validateVars, requestVars, authVars, breakerVars, storeVars, saveVars, gateVars, countersVars, notifyVars, triggerVars, raceVars, checksVars, cleanupVars, shutdownVars, migrateVars, alertsVars, rebindVars, probeVars>>
    \/ UptimeCheckReturns /\ UNCHANGED <<validateVars, requestVars, authVars, breakerVars, storeVars, saveVars, gateVars, countersVars, notifyVars, triggerVars, raceVars, checksVars, cleanupVars, shutdownVars, migrateVars, alertsVars, rebindVars, probeVars>>
    \/ AuthCheckReturns /\ UNCHANGED <<validateVars, requestVars, authVars, breakerVars, storeVars, saveVars, gateVars, countersVars, notifyVars, triggerVars, raceVars, checksVars, cleanupVars, shutdownVars, migrateVars, alertsVars, rebindVars, probeVars>>
    \/ HealthCheckReturns /\ UNCHANGED <<validateVars, requestVars, authVars, breakerVars, storeVars, saveVars, gateVars, countersVars, notifyVars, triggerVars, raceVars, checksVars, cleanupVars, shutdownVars, migrateVars, alertsVars, rebindVars, probeVars>>
    \/ CheckRaises /\ UNCHANGED <<validateVars, requestVars, authVars, breakerVars, storeVars, saveVars, gateVars, countersVars, notifyVars, triggerVars, raceVars, checksVars, cleanupVars, shutdownVars, migrateVars, alertsVars, rebindVars, probeVars>>
    \/ ReturnResults /\ UNCHANGED <<validateVars, requestVars, authVars, breakerVars, storeVars, saveVars, gateVars, countersVars, notifyVars, triggerVars, raceVars, checksVars, cleanupVars, shutdownVars, migrateVars, alertsVars, rebindVars, probeVars>>
    \/ CleanupCheckers /\ UNCHANGED <<validateVars, requestVars, authVars, breakerVars, storeVars, saveVars, gateVars, countersVars, notifyVars, triggerVars, raceVars, checksVars, cleanupVars, shutdownVars, migrateVars, alertsVars, rebindVars, probeVars>>

Init == PipelineInit /\ ValidateIdle /\ RequestIdle /\ AuthIdle /\ BreakerIdle
        /\ StoreIdle /\ SaveIdle /\ GateIdle /\ CountersIdle /\ NotifyIdle
        /\ TriggersIdle /\ RaceIdle /\ ChecksIdle /\ CleanupIdle
        /\ ShutdownIdle /\ MigrateIdle /\ AlertsIdle /\ RebindIdle
        /\ ProbeIdle

Spec == Init /\ [][Next]_vars

NextBreaker ==
    \/ Tick /\ UNCHANGED <<validateVars, requestVars, authVars, pipelineVars, storeVars, saveVars, gateVars, countersVars, notifyVars, triggerVars, raceVars, checksVars, cleanupVars, shutdownVars, migrateVars, alertsVars, rebindVars, probeVars>>
    \/ CallRefused /\ UNCHANGED <<validateVars, requestVars, authVars, pipelineVars, storeVars, saveVars, gateVars, countersVars, notifyVars, triggerVars, raceVars, checksVars, cleanupVars, shutdownVars, migrateVars, alertsVars, rebindVars, probeVars>>
    \/ CallAdmitted /\ UNCHANGED <<validateVars, requestVars, authVars, pipelineVars, storeVars, saveVars, gateVars, countersVars, notifyVars, triggerVars, raceVars, checksVars, cleanupVars, shutdownVars, migrateVars, alertsVars, rebindVars, probeVars>>
    \/ FuncReturns /\ UNCHANGED <<validateVars, requestVars, authVars, pipelineVars, storeVars, saveVars, gateVars, countersVars, notifyVars, triggerVars, raceVars, checksVars, cleanupVars, shutdownVars, migrateVars, alertsVars, rebindVars, probeVars>>
    \/ FuncRaises /\ UNCHANGED <<validateVars, requestVars, authVars, pipelineVars, storeVars, saveVars, gateVars, countersVars, notifyVars, triggerVars, raceVars, checksVars, cleanupVars, shutdownVars, migrateVars, alertsVars, rebindVars, probeVars>>
    \/ FuncRaisesUnexpected /\ UNCHANGED <<validateVars, requestVars, authVars, pipelineVars, storeVars, saveVars, gateVars, countersVars, notifyVars, triggerVars, raceVars, checksVars, cleanupVars, shutdownVars, migrateVars, alertsVars, rebindVars, probeVars>>
    \/ ManualReset /\ UNCHANGED <<validateVars, requestVars, authVars, pipelineVars, storeVars, saveVars, gateVars, countersVars, notifyVars, triggerVars, raceVars, checksVars, cleanupVars, shutdownVars, migrateVars, alertsVars, rebindVars, probeVars>>

InitBreaker == BreakerInit /\ ValidateIdle /\ RequestIdle /\ AuthIdle
        /\ PipelineIdle /\ StoreIdle /\ SaveIdle /\ GateIdle /\ CountersIdle
        /\ NotifyIdle /\ TriggersIdle /\ RaceIdle /\ ChecksIdle /\ CleanupIdle
        /\ ShutdownIdle /\ MigrateIdle /\ AlertsIdle /\ RebindIdle
        /\ ProbeIdle

SpecBreaker == InitBreaker /\ [][NextBreaker]_vars

NextStore ==
    \/ RecordResult /\ UNCHANGED <<validateVars, requestVars, authVars, pipelineVars, breakerVars, saveVars, gateVars, countersVars, notifyVars, triggerVars, raceVars, checksVars, cleanupVars, shutdownVars, migrateVars, alertsVars, rebindVars, probeVars>>
    \/ GetHistory /\ UNCHANGED <<validateVars, requestVars, authVars, pipelineVars, breakerVars, saveVars, gateVars, countersVars, notifyVars, triggerVars, raceVars, checksVars, cleanupVars, shutdownVars, migrateVars, alertsVars, rebindVars, probeVars>>
    \/ GetSummary /\ UNCHANGED <<validateVars, requestVars, authVars, pipelineVars, breakerVars, saveVars, gateVars, countersVars, notifyVars, triggerVars, raceVars, checksVars, cleanupVars, shutdownVars, migrateVars, alertsVars, rebindVars, probeVars>>

InitStore == StoreInit /\ ValidateIdle /\ RequestIdle /\ AuthIdle
        /\ PipelineIdle /\ BreakerIdle /\ SaveIdle /\ GateIdle /\ CountersIdle
        /\ NotifyIdle /\ TriggersIdle /\ RaceIdle /\ ChecksIdle /\ CleanupIdle
        /\ ShutdownIdle /\ MigrateIdle /\ AlertsIdle /\ RebindIdle
        /\ ProbeIdle

SpecStore == InitStore /\ [][NextStore]_vars

NextSave ==
    \/ SvRecordResult /\ UNCHANGED <<validateVars, requestVars, authVars, pipelineVars, breakerVars, storeVars, gateVars, countersVars, notifyVars, triggerVars, raceVars, checksVars, cleanupVars, shutdownVars, migrateVars, alertsVars, rebindVars, probeVars>>
    \/ SaveMkstemp /\ UNCHANGED <<validateVars, requestVars, authVars, pipelineVars, breakerVars, storeVars, gateVars, countersVars, notifyVars, triggerVars, raceVars, checksVars, cleanupVars, shutdownVars, migrateVars, alertsVars, rebindVars, probeVars>>
    \/ SaveWritePart /\ UNCHANGED <<validateVars, requestVars, authVars, pipelineVars, breakerVars, storeVars, gateVars, countersVars, notifyVars, triggerVars, raceVars, checksVars, cleanupVars, shutdownVars, migrateVars, alertsVars, rebindVars, probeVars>>
    \/ SaveFlushFsync /\ UNCHANGED <<validateVars, requestVars, authVars, pipelineVars, breakerVars, storeVars, gateVars, countersVars, notifyVars, triggerVars, raceVars, checksVars, cleanupVars, shutdownVars, migrateVars, alertsVars, rebindVars, probeVars>>
    \/ SaveReplace /\ UNCHANGED <<validateVars, requestVars, authVars, pipelineVars, breakerVars, storeVars, gateVars, countersVars, notifyVars, triggerVars, raceVars, checksVars, cleanupVars, shutdownVars, migrateVars, alertsVars, rebindVars, probeVars>>
    \/ SaveFailsEarly /\ UNCHANGED <<validateVars, requestVars, authVars, pipelineVars, breakerVars, storeVars, gateVars, countersVars, notifyVars, triggerVars, raceVars, checksVars, cleanupVars, shutdownVars, migrateVars, alertsVars, rebindVars, probeVars>>
    \/ SaveFails /\ UNCHANGED <<validateVars, requestVars, authVars, pipelineVars, breakerVars, storeVars, gateVars, countersVars, notifyVars, triggerVars, raceVars, checksVars, cleanupVars, shutdownVars, migrateVars, alertsVars, rebindVars, probeVars>>
    \/ Crash /\ UNCHANGED <<validateVars, requestVars, authVars, pipelineVars, breakerVars, storeVars, gateVars, countersVars, notifyVars, triggerVars, raceVars, checksVars, cleanupVars, shutdownVars, migrateVars, alertsVars, rebindVars, probeVars>>
    \/ Restart /\ UNCHANGED <<validateVars, requestVars, authVars, pipelineVars, breakerVars, storeVars, gateVars, countersVars, notifyVars, triggerVars, raceVars, checksVars, cleanupVars, shutdownVars, migrateVars, alertsVars, rebindVars, probeVars>>

InitSave == SaveInit /\ ValidateIdle /\ RequestIdle /\ AuthIdle
        /\ PipelineIdle /\ BreakerIdle /\ StoreIdle /\ GateIdle
        /\ CountersIdle /\ NotifyIdle /\ TriggersIdle /\ RaceIdle
        /\ ChecksIdle /\ CleanupIdle /\ ShutdownIdle /\ MigrateIdle
        /\ AlertsIdle /\ RebindIdle /\ ProbeIdle

SpecSave == InitSave /\ [][NextSave]_vars

NextGate ==
    \/ GateBeginCycle /\ UNCHANGED <<validateVars, requestVars, authVars, breakerVars, storeVars, saveVars, countersVars, notifyVars, triggerVars, raceVars, checksVars, cleanupVars, shutdownVars, migrateVars, alertsVars, rebindVars, probeVars>>
    \/ InitializeCheckers /\ UNCHANGED gateVars /\ UNCHANGED <<validateVars, requestVars, authVars, breakerVars, storeVars, saveVars, countersVars, notifyVars, triggerVars, raceVars, checksVars, cleanupVars, shutdownVars, migrateVars, alertsVars, rebindVars, probeVars>>
    \/ StageNotInCheckers /\ UNCHANGED gateVars /\ UNCHANGED <<validateVars, requestVars, authVars, breakerVars, storeVars, saveVars, countersVars, notifyVars, triggerVars, raceVars, checksVars, cleanupVars, shutdownVars, migrateVars, alertsVars, rebindVars, probeVars>>
    \/ BeginCheck /\ UNCHANGED gateVars /\ UNCHANGED <<validateVars, requestVars, authVars, breakerVars, storeVars, saveVars, countersVars, notifyVars, triggerVars, raceVars, checksVars, cleanupVars, shutdownVars, migrateVars, alertsVars, rebindVars, probeVars>>
    \/ GateUptimeCheckReturns /\ UNCHANGED <<validateVars, requestVars, authVars, breakerVars, storeVars, saveVars, countersVars, notifyVars, triggerVars, raceVars, checksVars, cleanupVars, shutdownVars, migrateVars, alertsVars, rebindVars, probeVars>>
    \/ GateCheckRaises /\ UNCHANGED <<validateVars, requestVars, authVars, breakerVars, storeVars, saveVars, countersVars, notifyVars, triggerVars, raceVars, checksVars, cleanupVars, shutdownVars, migrateVars, alertsVars, rebindVars, probeVars>>
    \/ ReturnResults /\ UNCHANGED gateVars /\ UNCHANGED <<validateVars, requestVars, authVars, breakerVars, storeVars, saveVars, countersVars, notifyVars, triggerVars, raceVars, checksVars, cleanupVars, shutdownVars, migrateVars, alertsVars, rebindVars, probeVars>>
    \/ CleanupCheckers /\ UNCHANGED gateVars /\ UNCHANGED <<validateVars, requestVars, authVars, breakerVars, storeVars, saveVars, countersVars, notifyVars, triggerVars, raceVars, checksVars, cleanupVars, shutdownVars, migrateVars, alertsVars, rebindVars, probeVars>>

InitGate == GateInit /\ ValidateIdle /\ RequestIdle /\ AuthIdle /\ BreakerIdle
        /\ StoreIdle /\ SaveIdle /\ CountersIdle /\ NotifyIdle /\ TriggersIdle
        /\ RaceIdle /\ ChecksIdle /\ CleanupIdle /\ ShutdownIdle
        /\ MigrateIdle /\ AlertsIdle /\ RebindIdle /\ ProbeIdle

SpecGate == InitGate /\ [][NextGate]_vars

NextCounters ==
    \/ CtRecordResult /\ UNCHANGED <<validateVars, requestVars, authVars, pipelineVars, breakerVars, storeVars, saveVars, gateVars, notifyVars, triggerVars, raceVars, checksVars, cleanupVars, shutdownVars, migrateVars, alertsVars, rebindVars, probeVars>>
    \/ CtGetConsecutiveFailures /\ UNCHANGED <<validateVars, requestVars, authVars, pipelineVars, breakerVars, storeVars, saveVars, gateVars, notifyVars, triggerVars, raceVars, checksVars, cleanupVars, shutdownVars, migrateVars, alertsVars, rebindVars, probeVars>>

InitCounters == CountersInit /\ ValidateIdle /\ RequestIdle /\ AuthIdle
        /\ PipelineIdle /\ BreakerIdle /\ StoreIdle /\ SaveIdle /\ GateIdle
        /\ NotifyIdle /\ TriggersIdle /\ RaceIdle /\ ChecksIdle /\ CleanupIdle
        /\ ShutdownIdle /\ MigrateIdle /\ AlertsIdle /\ RebindIdle
        /\ ProbeIdle

SpecCounters == InitCounters /\ [][NextCounters]_vars

NextNotify ==
    \/ CallShouldNotify /\ UNCHANGED <<validateVars, requestVars, authVars, pipelineVars, breakerVars, storeVars, saveVars, gateVars, countersVars, triggerVars, raceVars, checksVars, cleanupVars, shutdownVars, migrateVars, alertsVars, rebindVars, probeVars>>

InitNotify == NotifyInit /\ ValidateIdle /\ RequestIdle /\ AuthIdle
        /\ PipelineIdle /\ BreakerIdle /\ StoreIdle /\ SaveIdle /\ GateIdle
        /\ CountersIdle /\ TriggersIdle /\ RaceIdle /\ ChecksIdle
        /\ CleanupIdle /\ ShutdownIdle /\ MigrateIdle /\ AlertsIdle
        /\ RebindIdle /\ ProbeIdle

SpecNotify == InitNotify /\ [][NextNotify]_vars

NextTriggers ==
    \/ StartScheduler /\ UNCHANGED <<validateVars, requestVars, authVars, pipelineVars, breakerVars, storeVars, saveVars, gateVars, countersVars, notifyVars, raceVars, checksVars, cleanupVars, shutdownVars, migrateVars, alertsVars, rebindVars, probeVars>>
    \/ InitialCheckBegins /\ UNCHANGED <<validateVars, requestVars, authVars, pipelineVars, breakerVars, storeVars, saveVars, gateVars, countersVars, notifyVars, raceVars, checksVars, cleanupVars, shutdownVars, migrateVars, alertsVars, rebindVars, probeVars>>
    \/ InitialCheckEnds /\ UNCHANGED <<validateVars, requestVars, authVars, pipelineVars, breakerVars, storeVars, saveVars, gateVars, countersVars, notifyVars, raceVars, checksVars, cleanupVars, shutdownVars, migrateVars, alertsVars, rebindVars, probeVars>>
    \/ StartBot /\ UNCHANGED <<validateVars, requestVars, authVars, pipelineVars, breakerVars, storeVars, saveVars, gateVars, countersVars, notifyVars, raceVars, checksVars, cleanupVars, shutdownVars, migrateVars, alertsVars, rebindVars, probeVars>>
    \/ IntervalJobBegins /\ UNCHANGED <<validateVars, requestVars, authVars, pipelineVars, breakerVars, storeVars, saveVars, gateVars, countersVars, notifyVars, raceVars, checksVars, cleanupVars, shutdownVars, migrateVars, alertsVars, rebindVars, probeVars>>
    \/ IntervalJobSkipped /\ UNCHANGED <<validateVars, requestVars, authVars, pipelineVars, breakerVars, storeVars, saveVars, gateVars, countersVars, notifyVars, raceVars, checksVars, cleanupVars, shutdownVars, migrateVars, alertsVars, rebindVars, probeVars>>
    \/ IntervalJobEnds /\ UNCHANGED <<validateVars, requestVars, authVars, pipelineVars, breakerVars, storeVars, saveVars, gateVars, countersVars, notifyVars, raceVars, checksVars, cleanupVars, shutdownVars, migrateVars, alertsVars, rebindVars, probeVars>>
    \/ BotCheckBegins /\ UNCHANGED <<validateVars, requestVars, authVars, pipelineVars, breakerVars, storeVars, saveVars, gateVars, countersVars, notifyVars, raceVars, checksVars, cleanupVars, shutdownVars, migrateVars, alertsVars, rebindVars, probeVars>>
    \/ BotCheckEnds /\ UNCHANGED <<validateVars, requestVars, authVars, pipelineVars, breakerVars, storeVars, saveVars, gateVars, countersVars, notifyVars, raceVars, checksVars, cleanupVars, shutdownVars, migrateVars, alertsVars, rebindVars, probeVars>>

InitTriggers == TriggersInit /\ ValidateIdle /\ RequestIdle /\ AuthIdle
        /\ PipelineIdle /\ BreakerIdle /\ StoreIdle /\ SaveIdle /\ GateIdle
        /\ CountersIdle /\ NotifyIdle /\ RaceIdle /\ ChecksIdle /\ CleanupIdle
        /\ ShutdownIdle /\ MigrateIdle /\ AlertsIdle /\ RebindIdle
        /\ ProbeIdle

SpecTriggers == InitTriggers /\ [][NextTriggers]_vars

NextRace ==
    \/ RecordLast /\ UNCHANGED <<validateVars, requestVars, authVars, pipelineVars, breakerVars, storeVars, saveVars, gateVars, countersVars, notifyVars, triggerVars, checksVars, cleanupVars, shutdownVars, migrateVars, alertsVars, rebindVars, probeVars>>
    \/ RecordHistory /\ UNCHANGED <<validateVars, requestVars, authVars, pipelineVars, breakerVars, storeVars, saveVars, gateVars, countersVars, notifyVars, triggerVars, checksVars, cleanupVars, shutdownVars, migrateVars, alertsVars, rebindVars, probeVars>>
    \/ RecordLoadTotal /\ UNCHANGED <<validateVars, requestVars, authVars, pipelineVars, breakerVars, storeVars, saveVars, gateVars, countersVars, notifyVars, triggerVars, checksVars, cleanupVars, shutdownVars, migrateVars, alertsVars, rebindVars, probeVars>>
    \/ RecordStoreTotal /\ UNCHANGED <<validateVars, requestVars, authVars, pipelineVars, breakerVars, storeVars, saveVars, gateVars, countersVars, notifyVars, triggerVars, checksVars, cleanupVars, shutdownVars, migrateVars, alertsVars, rebindVars, probeVars>>
    \/ RecordBranch /\ UNCHANGED <<validateVars, requestVars, authVars, pipelineVars, breakerVars, storeVars, saveVars, gateVars, countersVars, notifyVars, triggerVars, checksVars, cleanupVars, shutdownVars, migrateVars, alertsVars, rebindVars, probeVars>>

InitRace == RaceInit /\ ValidateIdle /\ RequestIdle /\ AuthIdle
        /\ PipelineIdle /\ BreakerIdle /\ StoreIdle /\ SaveIdle /\ GateIdle
        /\ CountersIdle /\ NotifyIdle /\ TriggersIdle /\ ChecksIdle
        /\ CleanupIdle /\ ShutdownIdle /\ MigrateIdle /\ AlertsIdle
        /\ RebindIdle /\ ProbeIdle

SpecRace == InitRace /\ [][NextRace]_vars

NextChecks ==
    \/ CallUptimeCheck /\ UNCHANGED <<validateVars, requestVars, authVars, pipelineVars, breakerVars, storeVars, saveVars, gateVars, countersVars, notifyVars, triggerVars, raceVars, cleanupVars, shutdownVars, migrateVars, alertsVars, rebindVars, probeVars>>
    \/ CallAuthenticationCheck /\ UNCHANGED <<validateVars, requestVars, authVars, pipelineVars, breakerVars, storeVars, saveVars, gateVars, countersVars, notifyVars, triggerVars, raceVars, cleanupVars, shutdownVars, migrateVars, alertsVars, rebindVars, probeVars>>
    \/ CallHealthCheck /\ UNCHANGED <<validateVars, requestVars, authVars, pipelineVars, breakerVars, storeVars, saveVars, gateVars, countersVars, notifyVars, triggerVars, raceVars, cleanupVars, shutdownVars, migrateVars, alertsVars, rebindVars, probeVars>>

InitChecks == ChecksInit /\ ValidateIdle /\ RequestIdle /\ AuthIdle
        /\ PipelineIdle /\ BreakerIdle /\ StoreIdle /\ SaveIdle /\ GateIdle
        /\ CountersIdle /\ NotifyIdle /\ TriggersIdle /\ RaceIdle
        /\ CleanupIdle /\ ShutdownIdle /\ MigrateIdle /\ AlertsIdle
        /\ RebindIdle /\ ProbeIdle

SpecChecks == InitChecks /\ [][NextChecks]_vars

NextCleanup ==
    \/ CleanupReturns /\ UNCHANGED <<validateVars, requestVars, authVars, pipelineVars, breakerVars, storeVars, saveVars, gateVars, countersVars, notifyVars, triggerVars, raceVars, checksVars, shutdownVars, migrateVars, alertsVars, rebindVars, probeVars>>
    \/ CleanupRaises /\ UNCHANGED <<validateVars, requestVars, authVars, pipelineVars, breakerVars, storeVars, saveVars, gateVars, countersVars, notifyVars, triggerVars, raceVars, checksVars, shutdownVars, migrateVars, alertsVars, rebindVars, probeVars>>
    \/ FinallyEnds /\ UNCHANGED <<validateVars, requestVars, authVars, pipelineVars, breakerVars, storeVars, saveVars, gateVars, countersVars, notifyVars, triggerVars, raceVars, checksVars, shutdownVars, migrateVars, alertsVars, rebindVars, probeVars>>

InitCleanup == CleanupInit /\ ValidateIdle /\ RequestIdle /\ AuthIdle
        /\ PipelineIdle /\ BreakerIdle /\ StoreIdle /\ SaveIdle /\ GateIdle
        /\ CountersIdle /\ NotifyIdle /\ TriggersIdle /\ RaceIdle
        /\ ChecksIdle /\ ShutdownIdle /\ MigrateIdle /\ AlertsIdle
        /\ RebindIdle /\ ProbeIdle

SpecCleanup == InitCleanup /\ [][NextCleanup]_vars

NextShutdown ==
    \/ ShCycleBegins /\ UNCHANGED <<validateVars, requestVars, authVars, pipelineVars, breakerVars, storeVars, saveVars, gateVars, countersVars, notifyVars, triggerVars, raceVars, checksVars, cleanupVars, migrateVars, alertsVars, rebindVars, probeVars>>
    \/ ShSitePipelineBegins /\ UNCHANGED <<validateVars, requestVars, authVars, pipelineVars, breakerVars, storeVars, saveVars, gateVars, countersVars, notifyVars, triggerVars, raceVars, checksVars, cleanupVars, migrateVars, alertsVars, rebindVars, probeVars>>
    \/ ShStageRecorded /\ UNCHANGED <<validateVars, requestVars, authVars, pipelineVars, breakerVars, storeVars, saveVars, gateVars, countersVars, notifyVars, triggerVars, raceVars, checksVars, cleanupVars, migrateVars, alertsVars, rebindVars, probeVars>>
    \/ ShSitePipelineEnds /\ UNCHANGED <<validateVars, requestVars, authVars, pipelineVars, breakerVars, storeVars, saveVars, gateVars, countersVars, notifyVars, triggerVars, raceVars, checksVars, cleanupVars, migrateVars, alertsVars, rebindVars, probeVars>>
    \/ ShCycleEnds /\ UNCHANGED <<validateVars, requestVars, authVars, pipelineVars, breakerVars, storeVars, saveVars, gateVars, countersVars, notifyVars, triggerVars, raceVars, checksVars, cleanupVars, migrateVars, alertsVars, rebindVars, probeVars>>
    \/ ShHandleShutdown /\ UNCHANGED <<validateVars, requestVars, authVars, pipelineVars, breakerVars, storeVars, saveVars, gateVars, countersVars, notifyVars, triggerVars, raceVars, checksVars, cleanupVars, migrateVars, alertsVars, rebindVars, probeVars>>
    \/ ShShutdownReturns /\ UNCHANGED <<validateVars, requestVars, authVars, pipelineVars, breakerVars, storeVars, saveVars, gateVars, countersVars, notifyVars, triggerVars, raceVars, checksVars, cleanupVars, migrateVars, alertsVars, rebindVars, probeVars>>

InitShutdown == ShutdownInit /\ ValidateIdle /\ RequestIdle /\ AuthIdle
        /\ PipelineIdle /\ BreakerIdle /\ StoreIdle /\ SaveIdle /\ GateIdle
        /\ CountersIdle /\ NotifyIdle /\ TriggersIdle /\ RaceIdle
        /\ ChecksIdle /\ CleanupIdle /\ MigrateIdle /\ AlertsIdle
        /\ RebindIdle /\ ProbeIdle

SpecShutdown == InitShutdown /\ [][NextShutdown]_vars

NextMigrate ==
    \/ MgLoadState /\ UNCHANGED <<validateVars, requestVars, authVars, pipelineVars, breakerVars, storeVars, saveVars, gateVars, countersVars, notifyVars, triggerVars, raceVars, checksVars, cleanupVars, shutdownVars, alertsVars, rebindVars, probeVars>>
    \/ MgRecordResult /\ UNCHANGED <<validateVars, requestVars, authVars, pipelineVars, breakerVars, storeVars, saveVars, gateVars, countersVars, notifyVars, triggerVars, raceVars, checksVars, cleanupVars, shutdownVars, alertsVars, rebindVars, probeVars>>

InitMigrate == MigrateInit /\ ValidateIdle /\ RequestIdle /\ AuthIdle
        /\ PipelineIdle /\ BreakerIdle /\ StoreIdle /\ SaveIdle /\ GateIdle
        /\ CountersIdle /\ NotifyIdle /\ TriggersIdle /\ RaceIdle
        /\ ChecksIdle /\ CleanupIdle /\ ShutdownIdle /\ AlertsIdle
        /\ RebindIdle /\ ProbeIdle

SpecMigrate == InitMigrate /\ [][NextMigrate]_vars

NextAlerts ==
    \/ AlertCycle /\ UNCHANGED <<validateVars, requestVars, authVars, pipelineVars, breakerVars, storeVars, saveVars, gateVars, countersVars, notifyVars, triggerVars, raceVars, checksVars, cleanupVars, shutdownVars, migrateVars, rebindVars, probeVars>>

InitAlerts == AlertsInit /\ ValidateIdle /\ RequestIdle /\ AuthIdle
        /\ PipelineIdle /\ BreakerIdle /\ StoreIdle /\ SaveIdle /\ GateIdle
        /\ CountersIdle /\ NotifyIdle /\ TriggersIdle /\ RaceIdle
        /\ ChecksIdle /\ CleanupIdle /\ ShutdownIdle /\ MigrateIdle
        /\ RebindIdle /\ ProbeIdle

SpecAlerts == InitAlerts /\ [][NextAlerts]_vars

NextRebind ==
    \/ RbValidateUrl /\ UNCHANGED <<validateVars, requestVars, authVars, pipelineVars, breakerVars, storeVars, saveVars, gateVars, countersVars, notifyVars, triggerVars, raceVars, checksVars, cleanupVars, shutdownVars, migrateVars, alertsVars, probeVars>>
    \/ RbClientConnects /\ UNCHANGED <<validateVars, requestVars, authVars, pipelineVars, breakerVars, storeVars, saveVars, gateVars, countersVars, notifyVars, triggerVars, raceVars, checksVars, cleanupVars, shutdownVars, migrateVars, alertsVars, probeVars>>

InitRebind == RebindInit /\ ValidateIdle /\ RequestIdle /\ AuthIdle
        /\ PipelineIdle /\ BreakerIdle /\ StoreIdle /\ SaveIdle /\ GateIdle
        /\ CountersIdle /\ NotifyIdle /\ TriggersIdle /\ RaceIdle
        /\ ChecksIdle /\ CleanupIdle /\ ShutdownIdle /\ MigrateIdle
        /\ AlertsIdle /\ ProbeIdle

SpecRebind == InitRebind /\ [][NextRebind]_vars

NextProbe ==
    \/ PbTick /\ UNCHANGED <<validateVars, requestVars, authVars, pipelineVars, breakerVars, storeVars, saveVars, gateVars, countersVars, notifyVars, triggerVars, raceVars, checksVars, cleanupVars, shutdownVars, migrateVars, alertsVars, rebindVars>>
    \/ PbCallRefused /\ UNCHANGED <<validateVars, requestVars, authVars, pipelineVars, breakerVars, storeVars, saveVars, gateVars, countersVars, notifyVars, triggerVars, raceVars, checksVars, cleanupVars, shutdownVars, migrateVars, alertsVars, rebindVars>>
    \/ PbCallAdmitted /\ UNCHANGED <<validateVars, requestVars, authVars, pipelineVars, breakerVars, storeVars, saveVars, gateVars, countersVars, notifyVars, triggerVars, raceVars, checksVars, cleanupVars, shutdownVars, migrateVars, alertsVars, rebindVars>>
    \/ PbFuncReturns /\ UNCHANGED <<validateVars, requestVars, authVars, pipelineVars, breakerVars, storeVars, saveVars, gateVars, countersVars, notifyVars, triggerVars, raceVars, checksVars, cleanupVars, shutdownVars, migrateVars, alertsVars, rebindVars>>
    \/ PbFuncRaises /\ UNCHANGED <<validateVars, requestVars, authVars, pipelineVars, breakerVars, storeVars, saveVars, gateVars, countersVars, notifyVars, triggerVars, raceVars, checksVars, cleanupVars, shutdownVars, migrateVars, alertsVars, rebindVars>>

InitProbe == ProbeInit /\ ValidateIdle /\ RequestIdle /\ AuthIdle
        /\ PipelineIdle /\ BreakerIdle /\ StoreIdle /\ SaveIdle /\ GateIdle
        /\ CountersIdle /\ NotifyIdle /\ TriggersIdle /\ RaceIdle
        /\ ChecksIdle /\ CleanupIdle /\ ShutdownIdle /\ MigrateIdle
        /\ AlertsIdle /\ RebindIdle

SpecProbe == InitProbe /\ [][NextProbe]_vars


-----------------------------------------------------------------------------
(* Claims about the URL guard. *)

\* C2 (as claimed): every redirect hop is validated before it is followed, so
\* every request _make_request puts on the wire goes to a URL that has
\* already passed validation.
C2_EverySentUrlValidatedFirst ==
    \A i \in 1..Len(r_sent) : r_sent[i].validated

\* A redirect Location the client has received whose absolute URL is blocked
\* whatever DNS says.
BlockedHopReceived ==
    \E i \in 1..(Len(r_sent) - 1) :
        /\ i <= Len(r_chain)
        /\ validate_url(HopUrl(i), FALSE, <<>>) # "ok"

\* C3 (as claimed): when a hop of the redirect chain has a Location that fails
\* validation, _make_request ends by raising SSRFProtectionError.
C3_BlockedHopRaisesSSRF ==
    (r_pc = "done" /\ BlockedHopReceived) => r_result = "ssrf"

HttpScheme(url) == url.scheme \in {"http", "https", "HTTP"}

\* The blocked classes of C4 told by the input sets, not by _validate_url.
InBlockedClass(url) ==
    \/ ~HttpScheme(url)
    \/ url.host = <<>>
    \/ url.host \in LocalhostHosts \cup MetadataHosts \cup BlockedLiteralHosts

\* Public hostnames: names registered in public DNS, whatever their spelling.
PublicHostnames ==
    PublicNames \cup { <<"10", "example", "com">>, <<"192", "168", "evil", "com">> }

\* C4 (as claimed): _validate_url raises for every URL of a blocked class and
\* returns True for every http/https URL with a public literal IP, or with a
\* public hostname and validate_dns=False.
C4_BlockedRaisePublicPass ==
    v_out # "none" =>
        /\ InBlockedClass(v_url) => v_out # "ok"
        /\ (HttpScheme(v_url) /\ v_url.host \in PublicLiteralHosts) => v_out = "ok"
        /\ (HttpScheme(v_url) /\ v_url.host \in PublicHostnames /\ ~v_dnsflag)
              => v_out = "ok"

\* C4 (amended): as C4, the public hostnames being those that do not start
\* with a private-range prefix (10., 172.16.-172.31., 192.168.); a hostname
\* that starts with one is rejected like the blocked classes.
C4_BlockedRaisePublicUnprefixedPass ==
    v_out # "none" =>
        /\ InBlockedClass(v_url) => v_out # "ok"
        /\ (HttpScheme(v_url) /\ v_url.host \in PublicLiteralHosts) => v_out = "ok"
        /\ (HttpScheme(v_url) /\ v_url.host \in PublicNames /\ ~v_dnsflag)
              => v_out = "ok"
        /\ v_url.host \in PrefixedNames => v_out # "ok"

\* C4 witness: a multicast literal has been rejected by _validate_url.
C4_Witness ==
    /\ v_out \notin {"none", "ok"}
    /\ HttpScheme(v_url)
    /\ v_url.host = <<"224", "0", "0", "1">>

-----------------------------------------------------------------------------
(* Claims about AuthChecker. *)

\* check() went as far as the POST of the login form and got a response.
GotLoginResponse ==
    /\ a_done
    /\ a_site.authentication.enabled
    /\ a_creds = "ok"
    /\ a_net.page = "200"
    /\ a_net.post = "response"

HasSuccessIndicator ==
    \E ind \in a_site.authentication.success_indicators :
        Contains(LowerText(a_net.body), LowerText(ind))

HasFailureIndicator ==
    \E ind \in failure_indicators : Contains(LowerText(a_net.body), ind)

\* C9 (as claimed): after a check() with a non-successful result the checker
\* holds no session cookies, and after a successful login it holds the
\* response's cookies.
C9_SessionIffAuthSucceeded ==
    a_done =>
        /\ ~a_out.result.success => a_out.session_cookies = NoSession
        /\ (a_out.result.success /\ GotLoginResponse) =>
              a_out.session_cookies[IF a_name # "" THEN a_name ELSE "default"]
                 = a_net.cookies

\* C10: the login is reported successful exactly when the response body holds
\* a configured success indicator and no failure indicator, case-insensitively;
\* with both kinds it is a failure, with neither a failure reported "unclear".
C10_SuccessIffIndicatorAndNoFailure ==
    GotLoginResponse =>
        /\ a_out.result.success <=> (HasSuccessIndicator /\ ~HasFailureIndicator)
        /\ (HasSuccessIndicator /\ HasFailureIndicator) =>
              (~a_out.result.success /\ a_out.result.status = "failure")
        /\ (~HasSuccessIndicator /\ ~HasFailureIndicator) =>
              (~a_out.result.success /\ a_out.result.error = "unclear")

\* C10 witness: a body with a success indicator in another case than the
\* configured one and a failure indicator has been judged a failure.
C10_Witness ==
    /\ GotLoginResponse
    /\ HasSuccessIndicator
    /\ HasFailureIndicator
    /\ a_net.body = <<"D", "A", "S", "H", "B", "O", "A", "R", "D", "F", "A", "I", "L">>
    /\ ~a_out.result.success

-----------------------------------------------------------------------------
(* Claims about the site pipeline. *)

\* C1 (as claimed): every HTTP request a checker has sent in a site's run
\* went to a URL that had passed _validate_url before, so no request goes to a
\* target that validation rejects.
C1_NoRequestWithoutValidation ==
    \A i \in 1..Len(requests) :
        /\ requests[i].validated
        /\ validate_url(requests[i].url, TRUE,
                        gethostbyname(LowerHost(requests[i].url.host))) = "ok"

\* The order the stages are to run in.
StageRank == [t \in CheckTypes |->
                CASE t = "uptime" -> 1 [] t = "authentication" -> 2 [] OTHER -> 3]

\* check() of the stage is over: it returned (and the recording steps ended
\* normally or raised) or it raised.
StageOver(t) == stages[t] \in {"returned", "returned_then_raised", "raised"}

\* C5: within one site's run a stage's check() has started only if the
\* check() of every earlier stage that has a checker is over (returned or
\* raised), so the stages run in the order uptime, authentication, health.
C5_StagesInOrder ==
    \A t \in CheckTypes, u \in checkers :
        (StageRank[u] < StageRank[t] /\ stages[t] # "idle") => StageOver(u)

C5_Witness ==
    /\ stages["health"] = "running"
    /\ stages["uptime"] = "raised"
    /\ stages["authentication"] = "returned"

\* C6 (as claimed): the health stage's check() has been called in a site's
\* run only if the results hold a successful authentication result.
C6_HealthOnlyAfterAuthSuccess ==
    stages["health"] \notin {"idle", "skipped"} =>
        \E i \in 1..Len(results) :
            results[i].check_type = "authentication" /\ results[i].success

\* C7: no exception of a stage leaves _perform_site_checks, and when the
\* stage loop is over the authentication stage has been attempted whenever
\* the site has an authentication checker, whatever the uptime stage did.
C7_UptimeNeverBlocksAuth ==
    /\ ~raised
    /\ pc # "aborted"
    /\ (pc = "cleanup" /\ "authentication" \in checkers)
          => stages["authentication"] # "idle"

C7_Witness ==
    /\ pc = "cleanup"
    /\ ~raised
    /\ stages["uptime"] = "raised"
    /\ StageOver("authentication")

\* C8 (as claimed): a health check() that ran while the authentication
\* checker held no session cookies gave a result with success = FALSE and
\* sent no request.
C8_NoSessionHealthFails ==
    (stages["health"] \in {"returned", "returned_then_raised"}
     /\ auth_session = NoSession) =>
        /\ \A i \in 1..Len(results) :
               results[i].check_type = "health" => ~results[i].success
        /\ \A i \in 1..Len(requests) : requests[i].stage # "health"

-----------------------------------------------------------------------------
(* Claims about CircuitBreaker. *)

\* C11: counting from a CLOSED breaker with no failures, the breaker is CLOSED
\* as long as fewer than failure_threshold calls have failed since the last
\* successful call, and it is OPEN once failure_threshold calls in a row
\* have failed (HALF_OPEN while a trial call runs, and after a trial call
\* that ended in an exception which is not an expected_exception).
C11_OpenExactlyAtThreshold ==
    /\ cb_streak < cb.failure_threshold => cb.state = "closed"
    /\ cb_streak >= cb.failure_threshold =>
          /\ cb.state \in {"open", "half_open"}
          /\ (cb_pc = "idle" /\ cb_call.outcome # "raised_unexpected")
                => cb.state = "open"

C11_Witness ==
    /\ cb.failure_threshold = 3
    /\ cb_streak = 3
    /\ cb.state = "open"
    /\ cb_call.before.state = "closed"

\* C12: a call() entered while the breaker is OPEN and less than
\* recovery_timeout after last_failure_time ends in CircuitOpenError, does not
\* invoke func and leaves the breaker's fields as they were.
C12_OpenRefusesEarlyCall ==
    (/\ cb_calls > 0
     /\ cb_call.before.state = "open"
     /\ cb_call.at - cb_call.before.last_failure_time
           < cb_call.before.recovery_timeout)
    => /\ cb_call.outcome = "CircuitOpenError"
       /\ ~cb_call.invoked
       /\ cb_call.after = cb_call.before

C12_Witness ==
    /\ cb_call.outcome = "CircuitOpenError"
    /\ cb_call.before.state = "open"
    /\ cb_call.at - cb_call.before.last_failure_time < cb_call.before.recovery_timeout

\* C13: a call() entered while the breaker is OPEN and at least
\* recovery_timeout after last_failure_time invokes func with the breaker
\* HALF_OPEN, and when func returns the breaker is CLOSED with
\* failure_count = 0.
C13_OpenAfterTimeoutHalfOpens ==
    (/\ cb_calls > 0
     /\ cb_call.before.state = "open"
     /\ cb_call.at - cb_call.before.last_failure_time
           >= cb_call.before.recovery_timeout)
    => /\ cb_call.invoked
       /\ cb_pc = "in_func" => cb.state = "half_open"
       /\ cb_call.outcome = "returned" =>
             cb_call.after.state = "closed" /\ cb_call.after.failure_count = 0

C13_Witness ==
    /\ cb_call.before.state = "open"
    /\ cb_call.outcome = "returned"
    /\ cb_call.after.state = "closed"

\* C14: when func fails in a call admitted in HALF_OPEN the breaker is OPEN
\* afterwards, and a call() entered less than recovery_timeout after that
\* failure is refused.
C14_HalfOpenFailureReopens ==
    /\ (cb_call.before.state = "open" /\ cb_call.outcome = "raised")
          => cb_call.after.state = "open"
    /\ (/\ cb_reopened
        /\ cb_calls > 0
        /\ cb_call.before.state = "open"
        /\ cb_call.at - cb_call.last_failed < cb_call.before.recovery_timeout)
          => cb_call.outcome = "CircuitOpenError"

C14_Witness ==
    /\ cb_reopened
    /\ cb_call.outcome = "CircuitOpenError"
    /\ cb_call.at > cb_call.last_failed

-----------------------------------------------------------------------------
(* Claims about StateManager. *)

\* C16 (as claimed): the is_open that get_summary returns for a site is true
\* exactly when the site's breaker failure count has reached the threshold
\* (and no success has reset it since).
C16_SummaryExposesOpenBreaker ==
    sm_out.op = "get_summary" =>
        (sm_out.is_open <=>
            sm_state.sites[sm_out.site].circuit_breaker.failure_count >= sm_threshold)

\* C17: record_result(result, site) leaves the SiteState of every other site
\* as it was before the call.
C17_RecordLeavesOtherSites ==
    sm_out.op = "record_result" =>
        \A s \in SiteNames \ {sm_out.site} : sm_state.sites[s] = sm_before.sites[s]

C17_Witness ==
    /\ sm_out.op = "record_result"
    /\ sm_out.site = "SiteA"
    /\ sm_state.sites["SiteA"].circuit_breaker.failure_count = 2
    /\ sm_state.sites["SiteB"].circuit_breaker.failure_count = 1

\* The entries recorded for a site and check type, in recording order.
RecordedFor(site_name, check_type) ==
    LET picked == SelectSeq(sm_log, LAMBDA e : e.site = site_name
                                               /\ e.entry.check_type = check_type)
    IN  [i \in 1..Len(picked) |-> picked[i].entry]

\* The last k elements of a sequence (all of it when it is shorter).
LastK(seq, k) ==
    IF k >= Len(seq) THEN seq
    ELSE [i \in 1..k |-> seq[Len(seq) - k + i]]

\* C18: for every site and check type the stored history is never longer
\* than history_size and is the most recent min(n, history_size) of the n
\* results recorded for them, oldest first.
C18_HistoryIsBoundedSuffix ==
    \A s \in SiteNames, c \in CheckTypes :
        /\ Len(sm_state.sites[s].history[c]) <= sm_history_size
        /\ sm_state.sites[s].history[c] = LastK(RecordedFor(s, c), sm_history_size)

C18_Witness ==
    /\ sm_history_size = 2
    /\ Len(RecordedFor("SiteA", "uptime")) = 3
    /\ Len(sm_state.sites["SiteA"].history["uptime"]) = 2

\* C19 (as claimed): get_history(check_type, count, site) returns at most
\* count entries, the most recently recorded ones with the most recent last.
C19_GetHistoryReturnsLastCount ==
    sm_out.op = "get_history" =>
        /\ Len(sm_out.history) <= sm_out.count
        /\ sm_out.history =
              LastK(sm_state.sites[sm_out.site].history[sm_out.check_type],
                    sm_out.count)

-----------------------------------------------------------------------------
(* Claims about save_state. *)

\* C20: whatever the step at which the process crashes during a save, the
\* state file is never partial: it is the complete file that was there when
\* the save began or the complete new one; and the load_state of the next
\* start loads what the file holds.
C20_SaveIsCrashSafe ==
    /\ sv_target.exists => sv_target.complete
    /\ sv_target \in {sv_prev, CompleteFile(sv_new)}
    /\ (sv_loaded # "none" /\ sv_target.exists)
          => /\ sv_loaded = "true"
             /\ serialize(sv_state) = sv_target.data

C20_Witness ==
    /\ sv_crashed_at = "writing"
    /\ sv_pc = "idle"
    /\ sv_loaded = "true"
    /\ sv_target = sv_prev
    /\ sv_target # CompleteFile(sv_new)
    /\ sv_state = load_state(sv_target.data)

-----------------------------------------------------------------------------
(* Claims about the circuit breaker in the check cycle. *)

\* The site's checks failed in the failure_threshold cycles before cycle c.
FailedCyclesBefore(c) ==
    /\ c - 1 >= g_threshold
    /\ Len(g_outcomes) >= c - 1
    /\ \A i \in (c - g_threshold)..(c - 1) : g_outcomes[i] = "failed"

\* C15: once a site's checks failed in failure_threshold consecutive
\* cycles, the site's breaker is open (circuit_breaker.is_open of its
\* summary) and the next cycle is skipped for the site: no check is run, no
\* HTTP request is issued and no result is produced.
C15_OpenBreakerSkipsNextCycle ==
    /\ FailedCyclesBefore(Len(g_outcomes) + 1)
          => get_summary(g_state, "SiteA").circuit_breaker.is_open
    /\ (pc \in {"stage_loop", "check", "cleanup"} /\ FailedCyclesBefore(cycle))
          => /\ stages = NoStage
             /\ requests = <<>>
             /\ results = <<>>

\* The running process's state holds every result of log: the latest one
\* under last_results, the most recent ones in the history, all of them in
\* the counters.
MemoryHolds(state, log) ==
    LET site == state.sites["SiteA"] IN
    /\ log # <<>> => site.last_results["uptime"] = log[Len(log)]
    /\ site.history["uptime"] = LastK(log, MaxRecords - 1)
    /\ site.statistics.total_checks = Len(log)
    /\ site.statistics.total_failures
          = Cardinality({i \in 1..Len(log) : log[i].status = "failure"})
    /\ state.global.total_checks = Len(log)

-----------------------------------------------------------------------------
(* Claims about the failure counters. *)

FailingStatuses == {"failure", "error", "timeout"}

\* The results recorded for a check type, in recording order.
CounterLogOf(check_type) == SelectSeq(ct_log, LAMBDA e : e.check_type = check_type)

\* The number of failing results at the end of a log.
RECURSIVE TrailingFailures(_)
TrailingFailures(log) ==
    IF log = <<>> \/ log[Len(log)].status \notin FailingStatuses THEN 0
    ELSE 1 + TrailingFailures(SubSeq(log, 1, Len(log) - 1))

\* The time of the latest non-failing result that came right after a failing
\* one (NoTime when there is none).
RECURSIVE LatestRecovery(_)
LatestRecovery(log) ==
    IF Len(log) < 2 THEN NoTime
    ELSE IF /\ log[Len(log)].status \notin FailingStatuses
            /\ log[Len(log) - 1].status \in FailingStatuses
    THEN log[Len(log)].timestamp
    ELSE LatestRecovery(SubSeq(log, 1, Len(log) - 1))

\* C22: after any sequence of record_result calls, the consecutive-failure
\* count of a check type is the number of failing results (failure, error,
\* timeout) recorded for it since its last non-failing result, 0 right after
\* a non-failing one, and get_consecutive_failures returns it;
\* last_recovery_time is the time of the latest non-failing result that
\* followed a failure, and is unset when there was none.
C22_ConsecutiveFailuresCountStreak ==
    /\ \A c \in {"uptime", "health"} :
          /\ get_consecutive_failures(ct_state, c, "SiteA")
                = TrailingFailures(CounterLogOf(c))
          /\ ct_state.sites["SiteA"].statistics.last_recovery_time[c]
                = LatestRecovery(CounterLogOf(c))
    /\ ct_out.check_type # "none"
          => ct_out.value = TrailingFailures(CounterLogOf(ct_out.check_type))

C22_Witness ==
    /\ Len(CounterLogOf("uptime")) = MaxCounterRecords
    /\ ct_log[1].status = "error"
    /\ ct_log[2].status = "timeout"
    /\ ct_log[3].status = "warning"
    /\ get_consecutive_failures(ct_state, "uptime", "SiteA") = 0
    /\ ct_state.sites["SiteA"].statistics.last_recovery_time["uptime"] = 3
    /\ ct_out = [check_type |-> "uptime", value |-> 0]

-----------------------------------------------------------------------------
(* Claims about the decision to notify. *)

\* C23 (as claimed): for an enabled notifier, a failing result after a
\* result with success = true (status success or warning) and a successful
\* result after a failing one are both notified.
C23_EveryStateChangeAlerted ==
    (n_out # "none" /\ n_notifier.enabled /\ n_previous # NoPrevious) =>
        /\ (n_previous.success /\ n_result.status \in FailingStatuses)
              => n_out = "true"
        /\ (n_previous.status \in FailingStatuses /\ n_result.status = "success")
              => n_out = "true"

-----------------------------------------------------------------------------
(* Claims about the triggers of perform_checks. *)

\* The executions of perform_checks in progress.
CyclesInProgress ==
    (IF tr_main = "checking" THEN 1 ELSE 0) + tr_job
    + (IF tr_bot = "checking" THEN 1 ELSE 0)

\* C25 (as claimed): at most one execution of perform_checks is in progress
\* at any time, whichever of the interval job, the initial check of start()
\* and the bot's /check triggered it.
C25_AtMostOneCycleInProgress == CyclesInProgress <= 1

-----------------------------------------------------------------------------
(* Claims about concurrent record_result calls. *)

\* The site's entry after thread first's call followed by thread second's.
RecordedInOrder(first, second) ==
    record_result(
        record_result(rc_before, rc_result[first], first, "SiteA", first,
                      DefaultHistorySize),
        rc_result[second], second, "SiteA", second, DefaultHistorySize).sites["SiteA"]

\* The fields of a site's entry that the calls must agree on.
SiteFields(site) ==
    <<site.statistics.total_checks, site.statistics.total_failures,
      site.statistics.consecutive_failures, site.history, site.last_results>>

\* C26 (as claimed): once two concurrent record_result calls for the same
\* site have completed, the site's total_checks, total_failures,
\* consecutive_failures, history and last_results are those of one of the
\* two sequential orders of the calls.
C26_ConcurrentRecordsSerialized ==
    (\A t \in Threads : rc_pc[t] = "done" /\ rc_result[t] # NoPrevious) =>
        SiteFields(rc_state.sites["SiteA"])
            \in { SiteFields(RecordedInOrder(1, 2)), SiteFields(RecordedInOrder(2, 1)) }

\* A call that runs with no step of the other thread in between leaves what
\* record_result leaves.
RaceStepsMakeRecordResult ==
    \A t \in Threads :
        (rc_pc[t] = "done" /\ rc_pc[3 - t] = "called") =>
            rc_state = record_result(rc_before, rc_result[t], t, "SiteA", t,
                                     DefaultHistorySize)

-----------------------------------------------------------------------------
(* Claims about the results of check(). *)

\* A request of the call, numbered i among those it sent, timed out.
RequestTimedOut ==
    CASE ck_call.checker = "uptime" ->
           \E i \in 1..Len(ck_reqs) : ck_call.outs[i].response = "timeout"
      [] ck_call.checker = "authentication" ->
           \/ Len(ck_reqs) = 1 /\ ck_call.login.page = "timeout"
           \/ Len(ck_reqs) = 2 /\ ck_call.login.post = "timeout"
      [] ck_call.checker = "health" ->
           Len(ck_reqs) = 1 /\ ck_call.health.response = "timeout"
      [] OTHER -> FALSE

\* C27 (as claimed): for each checker, a check() during which an HTTP
\* request timed out returns a result with status timeout and success false.
C27_TimeoutGivesTimeoutStatus ==
    (ck_result # NoCheckResult /\ RequestTimedOut) =>
        /\ ck_result.status = "timeout"
        /\ ~ck_result.success

\* C28: every result returned by a checker's check() has success = true
\* when its status is success, and success = false when its status is
\* failure, error or timeout.
C28_StatusAgreesWithSuccess ==
    ck_result # NoCheckResult =>
        /\ ck_result.status = "success" => ck_result.success
        /\ ck_result.status \in FailingStatuses => ~ck_result.success

C28_Witness ==
    /\ ck_call.checker = "health"
    /\ ck_result.status = "timeout"
    /\ ~ck_result.success
    /\ ck_reqs # <<>>

-----------------------------------------------------------------------------
(* Claims about the cleanup of the checkers. *)

-----------------------------------------------------------------------------
(* Claims about the stages of a cycle and the results recorded for them. *)

\* C30: in one site's cycle every stage is attempted at most once, and
\* every attempted stage leads to exactly one record_result call for that
\* site and check type, also when the stage ends in an error: after any
\* number of cycles the site's store has counted, and holds in its uptime
\* history, one result per attempted uptime stage, and no cycle attempted the
\* stage twice.
C30_EveryAttemptedStageRecordedOnce ==
    LET site == g_state.sites["SiteA"] IN
    /\ Len(g_outcomes) <= cycle
    /\ site.statistics.total_checks = Len(g_outcomes)
    /\ Len(site.history["uptime"]) = Len(g_outcomes)

-----------------------------------------------------------------------------
(* Claims about shutdown during a cycle. *)

\* C31: once shutdown is requested during a cycle, the site pipeline
\* already started runs to completion and its results are recorded, and no
\* pipeline is started for any site not yet started.
C31_ShutdownAbortsBetweenSites ==
    sh_at_signal.seen =>
        /\ sh_started \subseteq sh_at_signal.started
        /\ (sh_signal = "exited" /\ sh_at_signal.running # 0)
              => sh_at_signal.running \in sh_done

-----------------------------------------------------------------------------
(* Claims about old single-site state files. *)

\* C32: loading an old single-site state file (no "sites" key) yields a
\* state with exactly one named site holding the old last_results, history
\* and statistics, and the global total_checks equal to the old total;
\* afterwards record_result for that site succeeds and updates its counters
\* as it does for a natively created site.
C32_OldFileMigratesToOneSite ==
    LET site == mg_state.sites[migrated_site_name]
        native == [NewSiteState EXCEPT
                     !.known = TRUE,
                     !.last_results = mg_file.last_results,
                     !.history = mg_file.history,
                     !.statistics = IF "statistics" \in mg_file.keys
                                    THEN mg_file.statistics ELSE @]
        recorded == record_in_site(native, mg_result, 2, 2,
                                   DefaultHistorySize)
    IN
    /\ mg_pc = "loaded" =>
          /\ get_all_sites(mg_state) = {migrated_site_name}
          /\ site.last_results = mg_file.last_results
          /\ site.history = mg_file.history
          /\ "statistics" \in mg_file.keys =>
                /\ site.statistics = mg_file.statistics
                /\ mg_state.global.total_checks = mg_file.statistics.total_checks
    /\ mg_pc # "raised"
    /\ mg_pc = "recorded" =>
          /\ site.statistics = recorded.statistics
          /\ site.last_results = recorded.last_results
          /\ site.history = recorded.history

-----------------------------------------------------------------------------
(* Claims about the creation of a site's entry. *)

\* C33: a site's entry is created only by the first result recorded for the
\* site: a read-only query (get_history, get_summary) leaves the set of
\* known sites (get_all_sites) and all stored state unchanged.
C33_QueriesLeaveStateUnchanged ==
    [][sm_out'.op \in {"get_history", "get_summary"}
          => /\ get_all_sites(sm_state') = get_all_sites(sm_state)
             /\ sm_state' = sm_state]_vars

-----------------------------------------------------------------------------
(* Claims about repeated results. *)

\* C34: alerts fire only on transitions: when the previous and the current
\* result are both failures, or both successes, a notifier in regular mode
\* is told not to notify, so a failure lasting k consecutive cycles produces
\* exactly one downtime notification decision.
C34_OneAlertPerOutage ==
    /\ al_previous # NoPrevious =>
          /\ (al_previous.status \in {"failure", "error", "timeout"}
              /\ al_result.status \in {"failure", "error", "timeout"})
                 => al_decision = "false"
          /\ (al_previous.status = "success" /\ al_result.status = "success")
                 => al_decision = "false"
    /\ al_streak >= 1 => al_alerts = 1

-----------------------------------------------------------------------------
(* Claims about the previous result handed to the notifiers. *)

\* The results recorded before cycle c.
RecordedBefore(c) ==
    LET Earlier(e) == e.timestamp < c
    IN  SelectSeq(g_recorded, Earlier)

\* C35: the previous result handed to notifiers for a check in cycle n is
\* the result recorded for the same site and check type in the latest
\* earlier cycle that recorded one (none if there was none), never the
\* result of cycle n itself.
C35_PreviousIsLatestEarlierResult ==
    g_handed.cycle # 0 =>
        LET earlier == RecordedBefore(g_handed.cycle) IN
        /\ g_handed.previous.timestamp # g_handed.cycle
        /\ g_handed.previous =
               IF earlier = <<>> THEN NoResult
               ELSE PreviousResult(earlier[Len(earlier)])

C35_Witness ==
    /\ g_handed.cycle = 3
    /\ g_handed.previous.timestamp = 1
    /\ g_handed.previous.status = "failure"
    /\ Len(g_outcomes) = 3

-----------------------------------------------------------------------------
(* Claims about the session cookies. *)

\* C36: a session never outlives its cycle: at the start of each site's
\* cycle the authentication checker holds no cookies, and when the health
\* stage runs with cookies, they were stored by the authentication stage of
\* the same cycle for the same site.
C36_SessionWithinSiteCycle ==
    /\ (pc = "stage_loop" /\ check_i = 1) => auth_session = NoSession
    /\ (pc = "check" /\ cur_check = "health" /\ auth_session # NoSession) =>
          /\ stages["authentication"] \in {"returned", "returned_then_raised"}
          /\ \A k \in SessionKeys : auth_session[k] # {} => k = cur_site.name

C36_Witness ==
    /\ cycle = 2
    /\ site_i = 2
    /\ pc = "check"
    /\ cur_check = "health"
    /\ auth_session["SiteB"] = {"sid"}
    /\ auth_session["SiteA"] = {}

-----------------------------------------------------------------------------
(* Claims about DNS rebinding. *)

\* C37: with validate_dns=True a request made through _make_request to a
\* hostname never connects to a private, loopback, link-local, reserved or
\* multicast address, even when the DNS answer at the time of sending
\* differs from the one validated.
C37_NoConnectionToInternalAddress ==
    (rb_validate_dns /\ rb_connected # NotConnected) =>
        LET ip == ParseIP(rb_connected) IN
        ~(IsPrivate(ip) \/ IsLoopback(ip) \/ IsLinkLocal(ip)
          \/ IsReserved(ip) \/ IsMulticast(ip))

-----------------------------------------------------------------------------
(* Claims about the breaker's fields. *)

\* C38: in every reachable state of a CircuitBreaker with failure_threshold
\* >= 1, after any sequence of call() and reset(): OPEN or HALF_OPEN implies
\* failure_count >= failure_threshold and last_failure_time set, and CLOSED
\* implies failure_count < failure_threshold.
C38_StateAgreesWithCount ==
    /\ cb.state \in {"open", "half_open"} =>
          /\ cb.failure_count >= cb.failure_threshold
          /\ cb.last_failure_time # NoTime
    /\ cb.state = "closed" => cb.failure_count < cb.failure_threshold

C38_Witness ==
    /\ cb.state = "half_open"
    /\ cb.failure_count = cb.failure_threshold + 1
    /\ cb_call.before.state = "open"
    /\ cb_pc = "in_func"
-----------------------------------------------------------------------------
(* Claims about concurrent calls through one breaker. *)

\* C39: with several threads calling call() on one breaker, once a call has
\* been admitted as the HALF_OPEN probe no other call is admitted until the
\* probe has reported success or failure: no thread is inside func that
\* passed the locked block while the probe was under way.
C39_OneProbeAtATime ==
    \A t \in ProbeThreads : pb_pc[t] = "in_func" => ~pb_during[t]

====
